---- MODULE Spec2Model ----
(***************************************************************************)
(* Raster image engine: the pixel buffer (image_t) and its colour          *)
(* operations, as implemented in kernels.c and svitava_.c.                 *)
(*                                                                         *)
(* An image is the struct {width, height, bpp, pixels}.  The heap block    *)
(* behind `pixels` is a sequence of bytes (offset k of the C block is      *)
(* element k+1); `alloc` says whether the pointer is non-NULL, and `past`  *)
(* holds the bytes that follow the block in memory, so that a store or a   *)
(* load that runs over the end of the block has a place to land.           *)
(***************************************************************************)
EXTENDS Integers, Sequences, FiniteSets, TLC

(* ------------------------------ bounds -------------------------------- *)

\* number of library calls made on the image after image_create
MaxOps == 2

\* bytes modelled behind every heap block
Overrun == 3

\* unsigned int is 32 bits wide: two half words of 16 bits each
HalfWord == 65536

\* largest accepted image dimension: named by test.c, defined in no
\* source file of the library
MAX_WIDTH == 65535

MAX_HEIGHT == 65535

GRAYSCALE == 1

RGB == 3

RGBA == 4

(* ------------------------------ inputs -------------------------------- *)

\* (width, height, bpp) triples handed to image_create
CreateArgs ==
    { <<1, 1, 1>>, <<2, 2, 1>>, <<2, 1, 3>>, <<1, 2, 4>>,
      <<0, 2, 4>>, <<2, 0, 4>>, <<2, 2, 0>>, <<2, 2, 2>>,
      <<MAX_WIDTH + 1, MAX_HEIGHT + 1, 1>> }

\* contents of memory that was never written (malloc does not initialise)
HeapFill == {0, 9}

\* outcomes of malloc: NULL, or a block holding one of the fills
MallocOutcomes == {<<"fail", 0>>} \cup { <<"ok", f>> : f \in HeapFill }

\* pixel coordinates (x, y) handed to the pixel operations: inside the
\* image, one step outside on each side, and on the boundary x = width,
\* y = height
Points ==
    { <<0, 0>>, <<1, 0>>, <<0, 1>>, <<1, 1>>,
      <<0 - 1, 0>>, <<0, 0 - 1>>, <<2, 0>>, <<0, 2>> }

\* colours (r, g, b, a) handed to the pixel operations
Colours == { <<10, 20, 30, 40>>, <<200, 5, 30, 0>> }

\* the calls made on an image: every point with every colour on the image
\* itself, and one call with a NULL image pointer
PixelCalls ==
    { <<"image", pt, c>> : pt \in Points, c \in Colours }
        \cup { <<"NULL", <<0, 0>>, <<10, 20, 30, 40>> >> }

\* image_getpixel calls: target, point, number of the NULL output slot
GetCalls ==
    { <<"image", pt, 0>> : pt \in Points }
        \cup { <<"image", <<0, 0>>, k>> : k \in {1, 4} }
        \cup { <<"NULL", <<0, 0>>, 0>> }

\* image_hline calls (x1, x2, y) and image_vline calls (x, y1, y2): spans
\* inside the image in both orders, spans with one end outside, and rows
\* or columns outside
Spans ==
    { <<0, 1, 0>>, <<1, 0, 0>>, <<0, 0, 1>>, <<1, 1, 1>>,
      <<0 - 1, 1, 0>>, <<0, 2, 0>>, <<2, 0 - 1, 1>>,
      <<0, 1, 0 - 1>>, <<0, 1, 2>> }

SpanCalls ==
    { <<"image", sp, c>> : sp \in Spans, c \in Colours }
        \cup { <<"NULL", <<0, 0, 0>>, <<10, 20, 30, 40>> >> }

\* marks an output slot the callee did not write
Unset == 0 - 1

(* ------------------------------ state --------------------------------- *)

VARIABLES
    img,    \* img["image"], img["cloned"]: the two image_t structs
    last,   \* the last call: its arguments, what it returned, what it saw
    prev,   \* the call before the last one, if it was an image_putpixel
    nops,   \* calls made so far
    ub,     \* "none", "overrun" (access behind a block), "null_deref",
            \* "int_overflow" (a loop counter passes INT_MAX)
    run,    \* the loop under way: the current run of image_putpixel_max
            \* calls on one pixel, or the orbit of an escape-time loop
    blk     \* blk[t]: the heap block img[t].pixels points to, 0 for NULL

vars == <<img, last, prev, nops, ub, run, blk>>

Max2(a, b) == IF a > b THEN a ELSE b

Min2(a, b) == IF a < b THEN a ELSE b

Fill(n, v) == [i \in 1 .. n |-> v]

(* ------------------------------ kernels.c ----------------------------- *)

\* unsigned int arithmetic (modulo 2^32), carried out on 16-bit half
\* words so that no intermediate product leaves the range of the checker's
\* integers; a, b in 0 .. 2^31 - 1
AddU32(a, b) ==
    LET lo == (a % HalfWord) + (b % HalfWord)
        hi == ((a \div HalfWord) + (b \div HalfWord) + (lo \div HalfWord)) % HalfWord
    IN  hi * HalfWord + (lo % HalfWord)

\* (a * b) mod 2^16 for a, b in 0 .. 2^16 - 1
MulLow16(a, b) ==
    ((((a % 256) * b) % HalfWord)
        + ((((a \div 256) * (b % 256)) % 256) * 256)) % HalfWord

\* (a * b) div 2^16 for a, b in 0 .. 2^16 - 1
MulHigh16(a, b) ==
    LET m == (a \div 256) * (b % 256) + (a % 256) * (b \div 256)
        t == m * 256 + (a % 256) * (b % 256)
    IN  (a \div 256) * (b \div 256) + (t \div HalfWord)

MulU32(a, b) ==
    LET a0 == a % HalfWord   a1 == a \div HalfWord
        b0 == b % HalfWord   b1 == b \div HalfWord
        hi == (MulHigh16(a0, b0) + MulLow16(a1, b0) + MulLow16(a0, b1)) % HalfWord
    IN  hi * HalfWord + MulLow16(a0, b0)

image_size(im) == MulU32(MulU32(im.width, im.height), im.bpp)

\* malloc(n): NULL, or a block of n uninitialised bytes.  malloc(0) may
\* return NULL or a block of no bytes, both are outcomes of "ok"/"fail".
malloc(n, outcome, fill) ==
    IF outcome = "fail"
    THEN [alloc |-> FALSE, pixels |-> <<>>, past |-> <<>>]
    ELSE [alloc |-> TRUE, pixels |-> Fill(n, fill), past |-> Fill(Overrun, fill)]

Struct(w, h, bpp, block) ==
    [width |-> w, height |-> h, bpp |-> bpp,
     alloc |-> block.alloc, pixels |-> block.pixels, past |-> block.past]

NoImage == Struct(0, 0, 0, malloc(0, "fail", 0))

image_create(width, height, bpp, outcome, fill) ==
    Struct(width, height, bpp,
           malloc(image_size([width |-> width, height |-> height, bpp |-> bpp]),
                  outcome, fill))

\* memcpy(clone.pixels, image->pixels, image_size(image))
memcpy(dst, src, n) ==
    [dst EXCEPT !.pixels = [i \in 1 .. Len(dst.pixels) |->
                               IF i <= n /\ i <= Len(src.pixels)
                               THEN src.pixels[i] ELSE dst.pixels[i]]]

image_clone(isNull, im, outcome, fill) ==
    IF isNull \/ ~im.alloc
    THEN NoImage
    ELSE LET clone == image_create(im.width, im.height, im.bpp, outcome, fill)
         IN  IF clone.alloc THEN memcpy(clone, im, image_size(im)) ELSE clone

\* the clone's struct is a copy of the source's: its pixels pointer is the
\* source's block, not one of its own
clone_pixels_shared(source, fresh) == source

\* the block the clone's pixels pointer designates: the one malloc handed
\* to image_create inside image_clone
clone_pixels(source, fresh) == fresh

\* memset(image->pixels, 0x00, image_size(image))
memset(im, n) ==
    [im EXCEPT !.pixels = [i \in 1 .. Len(im.pixels) |->
                              IF i <= n THEN 0 ELSE im.pixels[i]]]

image_clear(isNull, im) ==
    IF isNull \/ ~im.alloc THEN im ELSE memset(im, image_size(im))

\* x < 0 || y < 0 || x >= (int)image->width || y >= (int)image->height
OutOfRange(im, x, y) == x < 0 \/ y < 0 \/ x >= im.width \/ y >= im.height

\* p = image->pixels + (x + y * image->width) * image->bpp
Offset(im, x, y) == MulU32(AddU32(x, MulU32(y, im.width)), im.bpp)

\* *p = v, p being `off` bytes into the block
Store(im, off, v) ==
    IF off < Len(im.pixels)
    THEN [im EXCEPT !.pixels[off + 1] = v]
    ELSE IF off < Len(im.pixels) + Len(im.past)
         THEN [im EXCEPT !.past[off - Len(im.pixels) + 1] = v]
         ELSE im

\* *p, p being `off` bytes into the block; `wild` is what a load far
\* behind the block yields
Load(im, off, wild) ==
    IF off < Len(im.pixels)
    THEN im.pixels[off + 1]
    ELSE IF off < Len(im.pixels) + Len(im.past)
         THEN im.past[off - Len(im.pixels) + 1]
         ELSE wild

\* an access of n bytes at off leaves the block
Overruns(im, off, n) == off + n > Len(im.pixels)

image_putpixel(isNull, im, x, y, r, g, b, a) ==
    IF isNull \/ ~im.alloc THEN im
    ELSE IF OutOfRange(im, x, y) THEN im
    ELSE LET p  == Offset(im, x, y)
             s3 == Store(Store(Store(im, p, r), p + 1, g), p + 2, b)
         IN  IF im.bpp = RGBA THEN Store(s3, p + 3, a) ELSE s3

\* bytes image_putpixel touches at p
image_putpixel_span(im) == IF im.bpp = RGBA THEN 4 ELSE 3

\* the comparison dropped: the channel is overwritten
MaxStoreAlways(im, off, v, wild) == Store(im, off, v)

MaxStore(im, off, v, wild) ==
    IF Load(im, off, wild) < v THEN Store(im, off, v) ELSE im

image_putpixel_max(isNull, im, x, y, r, g, b, a, wild) ==
    IF isNull \/ ~im.alloc THEN im
    ELSE IF OutOfRange(im, x, y) THEN im
    ELSE LET p  == Offset(im, x, y)
             s3 == MaxStore(MaxStore(MaxStore(im, p, r, wild), p + 1, g, wild),
                            p + 2, b, wild)
         IN  IF im.bpp = RGBA THEN Store(s3, p + 3, a) ELSE s3

\* alpha read from the fourth byte whatever the depth
image_getpixel_alpha4(isNull, im, x, y, nullSlot, out, wild) ==
    IF isNull \/ ~im.alloc \/ nullSlot # 0 THEN out
    ELSE IF OutOfRange(im, x, y) THEN out
    ELSE LET p == Offset(im, x, y)
         IN  << Load(im, p, wild), Load(im, p + 1, wild), Load(im, p + 2, wild),
                Load(im, p + 3, wild) >>

\* the four output slots after image_getpixel; nullSlot is the number of
\* the slot whose pointer is NULL (0: none); `out` is what the caller's
\* variables held before the call
image_getpixel(isNull, im, x, y, nullSlot, out, wild) ==
    IF isNull \/ ~im.alloc \/ nullSlot # 0 THEN out
    ELSE IF OutOfRange(im, x, y) THEN out
    ELSE LET p == Offset(im, x, y)
         IN  << Load(im, p, wild), Load(im, p + 1, wild), Load(im, p + 2, wild),
                IF im.bpp = RGBA THEN Load(im, p + 3, wild) ELSE 255 >>

image_getpixel_span(im) == IF im.bpp = RGBA THEN 4 ELSE 3

(* ------------------------------ svitava_.c ---------------------------- *)
(* The same struct with the drawing functions of svitava_.c, which test    *)
(* neither the image pointer nor the pixels pointer and always move four   *)
(* bytes per pixel.  The operators give the effect on memory of a call     *)
(* whose pointers are valid; the actions decide what a NULL pointer does.  *)

sv_image_clear(im) == memset(im, image_size(im))

sv_image_putpixel(im, x, y, r, g, b, a) ==
    IF OutOfRange(im, x, y) THEN im
    ELSE LET p == Offset(im, x, y)
         IN  Store(Store(Store(Store(im, p, r), p + 1, g), p + 2, b), p + 3, a)

sv_image_getpixel(im, x, y, out, wild) ==
    IF OutOfRange(im, x, y) THEN out
    ELSE LET p == Offset(im, x, y)
         IN  << Load(im, p, wild), Load(im, p + 1, wild), Load(im, p + 2, wild),
                Load(im, p + 3, wild) >>

\* for (x = fromX; x <= toX; x++) image_putpixel(image, x, y, r, g, b, a)
RECURSIVE hline_loop(_, _, _, _, _)
hline_loop(im, x, toX, y, c) ==
    IF x > toX THEN im
    ELSE hline_loop(sv_image_putpixel(im, x, y, c[1], c[2], c[3], c[4]),
                    x + 1, toX, y, c)

image_hline(im, x1, x2, y, c) == hline_loop(im, Min2(x1, x2), Max2(x1, x2), y, c)

RECURSIVE vline_loop(_, _, _, _, _)
vline_loop(im, x, y, toY, c) ==
    IF y > toY THEN im
    ELSE vline_loop(sv_image_putpixel(im, x, y, c[1], c[2], c[3], c[4]),
                    x, y + 1, toY, c)

image_vline(im, x, y1, y2, c) == vline_loop(im, x, Min2(y1, y2), Max2(y1, y2), c)

(* ------------------------- calls on the library ----------------------- *)

\* the record of a call: the arguments that matter to it, the struct as it
\* was before the call (`before`), what malloc did inside it (`malloc`) and
\* what came back.  The functions of kernels.c and svitava_.c are declared
\* void, so `result` is "void" for every one of them but image_size, whose
\* value is `ret`.  `other` is the other struct of the program as it was
\* before the call.
Call(op, t, before) ==
    [op |-> op, target |-> t, args |-> <<0, 0, 0>>, x |-> 0, y |-> 0, x2 |-> 0,
     c |-> <<0, 0, 0, 0>>, nullSlot |-> 0,
     out |-> <<Unset, Unset, Unset, Unset>>, malloc |-> "none",
     before |-> before, result |-> "void", ret |-> Unset, kernel |-> <<>>,
     y2 |-> 0, pts |-> <<>>, writes |-> <<>>, reads |-> {},
     other |-> IF t = "image" THEN img["cloned"]
               ELSE IF t = "cloned" THEN img["image"] ELSE before]

\* what `prev` remembers of the call before the last one: the arguments
\* of an image_putpixel call, and of any other call only that it was none
Brief(call) ==
    IF call.op = "putpixel"
    THEN [op |-> call.op, target |-> call.target, x |-> call.x, y |-> call.y,
          c |-> call.c]
    ELSE [op |-> "other", target |-> "NULL", x |-> 0, y |-> 0,
          c |-> <<0, 0, 0, 0>>]

NoOut == <<Unset, Unset, Unset, Unset>>

NoRun == [active |-> FALSE, x |-> 0, y |-> 0, base |-> NoOut, vals |-> {}]

\* the struct a pointer designates (a NULL pointer designates none)
Deref(t) == IF t = "NULL" THEN NoImage ELSE img[t]

\* the pixel (x, y) is one the call may touch
Usable(t, x, y) ==
    t # "NULL" /\ img[t].alloc /\ ~OutOfRange(img[t], x, y)

\* values a load can yield when it lands behind the modelled memory
Wild(t, x, y, n) ==
    IF Usable(t, x, y)
       /\ Offset(img[t], x, y) + n > Len(img[t].pixels) + Len(img[t].past)
    THEN HeapFill ELSE {0}

Touch(t, x, y, n) ==
    IF Usable(t, x, y) /\ Overruns(img[t], Offset(img[t], x, y), n)
    THEN "overrun" ELSE ub

\* the structs after a call has turned *t into im: a store through t's
\* pixels pointer shows in every struct whose pointer designates that block
Put(t, im) ==
    IF t = "NULL" THEN img
    ELSE [s \in DOMAIN img |->
            IF s = t THEN im
            ELSE IF blk[s] # 0 /\ blk[s] = blk[t]
                 THEN [img[s] EXCEPT !.pixels = im.pixels, !.past = im.past]
                 ELSE img[s]]

\* the program has called image_create once; `cloned` is not yet set
Init ==
    /\ \E a \in CreateArgs, m \in MallocOutcomes :
          img = [t \in {"image", "cloned"} |->
                   IF t = "image"
                   THEN image_create(a[1], a[2], a[3], m[1], m[2])
                   ELSE NoImage]
          /\ last = [Call("create", "image", NoImage) EXCEPT !.args = a, !.malloc = m[1]]
    /\ prev = Brief(Call("none", "NULL", NoImage))
    /\ nops = 0
    /\ ub = "none"
    /\ run = NoRun
    /\ blk = [t \in {"image", "cloned"} |->
                IF t = "image" /\ img[t].alloc THEN 1 ELSE 0]

Running == nops < MaxOps /\ ub # "null_deref"

Clone ==
    /\ Running
    /\ \E t \in {"NULL", "image"}, m \in MallocOutcomes :
          /\ img' = [img EXCEPT !["cloned"] = image_clone(t = "NULL", Deref(t), m[1], m[2])]
          /\ last' = [Call("clone", t, Deref(t)) EXCEPT !.malloc = m[1]]
          /\ blk' = [blk EXCEPT !["cloned"] =
                        IF image_clone(t = "NULL", Deref(t), m[1], m[2]).alloc
                        THEN clone_pixels(blk[t], 2) ELSE 0]
    /\ nops' = nops + 1
    /\ prev' = Brief(last)
    /\ run' = NoRun
    /\ UNCHANGED ub

Clear ==
    /\ Running
    /\ \E t \in {"NULL", "image", "cloned"} :
          /\ img' = Put(t, image_clear(t = "NULL", Deref(t)))
          /\ last' = Call("clear", t, Deref(t))
    /\ nops' = nops + 1
    /\ UNCHANGED blk
    /\ prev' = Brief(last)
    /\ run' = NoRun
    /\ UNCHANGED ub

PutPixel ==
    /\ Running
    /\ \E k \in PixelCalls :
          LET t == k[1]  x == k[2][1]  y == k[2][2]  c == k[3] IN
          /\ img' = Put(t, image_putpixel(t = "NULL", Deref(t), x, y,
                                          c[1], c[2], c[3], c[4]))
          /\ last' = [Call("putpixel", t, Deref(t)) EXCEPT !.x = x, !.y = y, !.c = c]
          /\ ub' = Touch(t, x, y, image_putpixel_span(Deref(t)))
    /\ nops' = nops + 1
    /\ UNCHANGED blk
    /\ prev' = Brief(last)
    /\ run' = NoRun

\* the bytes of pixel (x, y) as the struct's bpp lays them out
PixelBytes(im, x, y) ==
    [i \in 1 .. im.bpp |-> Load(im, Offset(im, x, y) + i - 1, 0)]

\* bookkeeping for runs of image_putpixel_max calls on one pixel: the
\* pixel's bytes before the first call of the run and the colours written
NextRun(t, x, y, c) ==
    IF ~(t = "image" /\ Usable(t, x, y)) THEN NoRun
    ELSE IF run.active /\ run.x = x /\ run.y = y
         THEN [run EXCEPT !.vals = @ \cup {c}]
         ELSE [active |-> TRUE, x |-> x, y |-> y,
               base |-> PixelBytes(img[t], x, y), vals |-> {c}]

PutPixelMax ==
    /\ Running
    /\ \E k \in PixelCalls :
          LET t == k[1]  x == k[2][1]  y == k[2][2]  c == k[3] IN
          \E wild \in Wild(t, x, y, 3) :
          /\ img' = Put(t, image_putpixel_max(t = "NULL", Deref(t), x, y,
                                              c[1], c[2], c[3], c[4], wild))
          /\ last' = [Call("putpixel_max", t, Deref(t)) EXCEPT !.x = x, !.y = y, !.c = c]
          /\ ub' = Touch(t, x, y, image_putpixel_span(Deref(t)))
          /\ run' = NextRun(t, x, y, c)
    /\ nops' = nops + 1
    /\ UNCHANGED blk
    /\ prev' = Brief(last)

GetPixel ==
    /\ Running
    /\ \E k \in GetCalls :
          LET t == k[1]  x == k[2][1]  y == k[2][2]  ns == k[3] IN
          \E wild \in Wild(t, x, y, 3) :
          /\ last' = [Call("getpixel", t, Deref(t)) EXCEPT
                          !.x = x, !.y = y, !.nullSlot = ns,
                          !.out = image_getpixel(t = "NULL", Deref(t), x, y, ns,
                                                 NoOut, wild)]
          /\ ub' = IF ns = 0 THEN Touch(t, x, y, image_getpixel_span(Deref(t))) ELSE ub
    /\ nops' = nops + 1
    /\ UNCHANGED blk
    /\ prev' = Brief(last)
    /\ run' = NoRun
    /\ UNCHANGED img

(* ---------------------- calls on svitava_.c ---------------------------- *)

\* the call dereferences a NULL pointer: the image pointer itself, or the
\* pixels pointer when the call reaches a store or a load
NullDeref(t, reaches) == t = "NULL" \/ (~img[t].alloc /\ reaches)

\* some pixel of the span lies in the image / is stored behind the block
SpanReaches(t, xs, ys) ==
    \E x \in xs, y \in ys : ~OutOfRange(img[t], x, y)

SpanOverruns(t, xs, ys) ==
    \E x \in xs, y \in ys :
        ~OutOfRange(img[t], x, y) /\ Overruns(img[t], Offset(img[t], x, y), 4)

DrawClear ==
    /\ Running
    /\ \E t \in {"NULL", "image"} :
          LET crash == NullDeref(t, image_size(Deref(t)) > 0) IN
          /\ img' = IF crash THEN img ELSE Put(t, sv_image_clear(Deref(t)))
          /\ ub' = IF crash THEN "null_deref" ELSE ub
          /\ last' = Call("clear", t, Deref(t))
    /\ nops' = nops + 1
    /\ UNCHANGED blk
    /\ prev' = Brief(last)
    /\ run' = NoRun

DrawPutPixel ==
    /\ Running
    /\ \E k \in PixelCalls :
          LET t == k[1]  x == k[2][1]  y == k[2][2]  c == k[3]
              crash == NullDeref(t, ~OutOfRange(Deref(t), x, y)) IN
          /\ img' = IF crash THEN img
                    ELSE Put(t, sv_image_putpixel(Deref(t), x, y, c[1], c[2], c[3], c[4]))
          /\ ub' = IF crash THEN "null_deref" ELSE Touch(t, x, y, 4)
          /\ last' = [Call("putpixel", t, Deref(t)) EXCEPT !.x = x, !.y = y, !.c = c]
    /\ nops' = nops + 1
    /\ UNCHANGED blk
    /\ prev' = Brief(last)
    /\ run' = NoRun

DrawGetPixel ==
    /\ Running
    /\ \E k \in GetCalls :
          LET t == k[1]  x == k[2][1]  y == k[2][2]  ns == k[3]
              crash == NullDeref(t, ~OutOfRange(Deref(t), x, y))
                          \/ (ns # 0 /\ ~OutOfRange(Deref(t), x, y)) IN
          \E wild \in Wild(t, x, y, 4) :
          /\ last' = [Call("getpixel", t, Deref(t)) EXCEPT
                          !.x = x, !.y = y, !.nullSlot = ns,
                          !.out = IF crash THEN NoOut
                                  ELSE sv_image_getpixel(Deref(t), x, y, NoOut, wild)]
          /\ ub' = IF crash THEN "null_deref" ELSE Touch(t, x, y, 4)
    /\ nops' = nops + 1
    /\ UNCHANGED blk
    /\ prev' = Brief(last)
    /\ run' = NoRun
    /\ UNCHANGED img

HLine ==
    /\ Running
    /\ \E k \in SpanCalls :
          LET t == k[1]  x1 == k[2][1]  x2 == k[2][2]  y == k[2][3]  c == k[3]
              xs == Min2(x1, x2) .. Max2(x1, x2)
              crash == NullDeref(t, SpanReaches(t, xs, {y})) IN
          /\ img' = IF crash THEN img
                    ELSE Put(t, image_hline(Deref(t), x1, x2, y, c))
          /\ ub' = IF crash THEN "null_deref"
                   ELSE IF SpanOverruns(t, xs, {y}) THEN "overrun" ELSE ub
          /\ last' = [Call("hline", t, Deref(t)) EXCEPT !.x = x1, !.x2 = x2, !.y = y, !.c = c]
    /\ nops' = nops + 1
    /\ UNCHANGED blk
    /\ prev' = Brief(last)
    /\ run' = NoRun

VLine ==
    /\ Running
    /\ \E k \in SpanCalls :
          LET t == k[1]  x == k[2][3]  y1 == k[2][1]  y2 == k[2][2]  c == k[3]
              ys == Min2(y1, y2) .. Max2(y1, y2)
              crash == NullDeref(t, SpanReaches(t, {x}, ys)) IN
          /\ img' = IF crash THEN img
                    ELSE Put(t, image_vline(Deref(t), x, y1, y2, c))
          /\ ub' = IF crash THEN "null_deref"
                   ELSE IF SpanOverruns(t, {x}, ys) THEN "overrun" ELSE ub
          /\ last' = [Call("vline", t, Deref(t)) EXCEPT !.x = x, !.y = y1, !.x2 = y2, !.c = c]
    /\ nops' = nops + 1
    /\ UNCHANGED blk
    /\ prev' = Brief(last)
    /\ run' = NoRun

NextDraw == DrawClear \/ DrawPutPixel \/ DrawGetPixel \/ HLine \/ VLine

SpecDraw == Init /\ [][NextDraw]_vars

Next == Clone \/ Clear \/ PutPixel \/ PutPixelMax \/ GetPixel

Spec == Init /\ [][Next]_vars

(* ---------------------- kernels.c: apply_kernel ------------------------ *)

Abs(a) == IF a < 0 THEN 0 - a ELSE a

\* a / b on ints: the quotient truncated toward zero
Quot(a, b) ==
    LET q == Abs(a) \div Abs(b)
    IN  IF (a < 0) = (b < 0) THEN q ELSE 0 - q

\* v < 0 ? 0 : (v > 255 ? 255 : v)
Clamp(v) == IF v < 0 THEN 0 ELSE IF v > 255 THEN 255 ELSE v

\* the two inner loops at pixel (x, y): tap i (from 0) is row i / size and
\* column i % size of the kernel; acc is <<r, g, b>>.  A slot that
\* image_getpixel leaves unwritten keeps what `uninit` says it held.
RECURSIVE kernel_sum(_, _, _, _, _, _, _, _)
kernel_sum(image, x, y, size, kernel, i, acc, uninit) ==
    IF i = size * size THEN acc
    ELSE LET limit == size \div 2
             dy == (i \div size) - limit
             dx == (i % size) - limit
             px == image_getpixel(FALSE, image, x + dx, y + dy, 0,
                                  Fill(4, uninit), uninit)
             k  == kernel[dy + limit + 1][dx + limit + 1]
         IN  kernel_sum(image, x, y, size, kernel, i + 1,
                        << acc[1] + px[1] * k, acc[2] + px[2] * k,
                           acc[3] + px[3] * k >>, uninit)

\* the colour without the clamp: the quotients as they are
filtered_pixel_unclamped(image, x, y, size, kernel, divisor, uninit) ==
    LET s == kernel_sum(image, x, y, size, kernel, 0, <<0, 0, 0>>, uninit)
    IN  << Quot(s[1], divisor), Quot(s[2], divisor), Quot(s[3], divisor), 0 >>

\* the colour apply_kernel writes at (x, y): sums, division, clamp, alpha 0
filtered_pixel(image, x, y, size, kernel, divisor, uninit) ==
    LET s == kernel_sum(image, x, y, size, kernel, 0, <<0, 0, 0>>, uninit)
    IN  << Clamp(Quot(s[1], divisor)), Clamp(Quot(s[2], divisor)),
           Clamp(Quot(s[3], divisor)), 0 >>

\* the loops over y and x, from (x, y) on: reads from image, writes to tmp
RECURSIVE filter_loop(_, _, _, _, _, _, _, _)
filter_loop(image, tmp, x, y, size, kernel, divisor, uninit) ==
    LET limit == size \div 2 IN
    IF y >= tmp.height - limit THEN tmp
    ELSE IF x >= tmp.width - limit
         THEN filter_loop(image, tmp, limit, y + 1, size, kernel, divisor, uninit)
         ELSE LET c == filtered_pixel(image, x, y, size, kernel, divisor, uninit)
              IN  filter_loop(image,
                              image_putpixel(FALSE, tmp, x, y, c[1], c[2], c[3], c[4]),
                              x + 1, y, size, kernel, divisor, uninit)

\* tmp.height - limit and tmp.width - limit are unsigned: below zero they
\* wrap to a number above INT_MAX, and the int loop counter that is
\* compared with it is incremented past INT_MAX
loop_wraps(tmp, limit) ==
    \/ tmp.height < limit
    \/ (limit < tmp.height - limit /\ tmp.width < limit)

\* the pixels (x, y) the loops visit when no bound wraps
Interior(im, limit) ==
    (limit .. (im.width - limit - 1)) \X (limit .. (im.height - limit - 1))

\* a guard that lets even sizes pass
rejected_unless_even(size, divisor) == size <= 0 \/ divisor = 0

\* size <= 0 || size % 2 == 0 || divisor == 0
rejected(size, divisor) == size <= 0 \/ size % 2 = 0 \/ divisor = 0

apply_kernel(isNull, image, size, kernel, divisor, outcome, uninit) ==
    IF isNull \/ ~image.alloc THEN image
    ELSE IF rejected(size, divisor) THEN image
    ELSE LET limit == size \div 2
             tmp   == image_clone(FALSE, image, outcome, uninit)
         IN  IF ~tmp.alloc THEN image
             ELSE IF loop_wraps(tmp, limit) THEN image
             ELSE memcpy(image,
                         filter_loop(image, tmp, limit, limit, size, kernel,
                                     divisor, uninit),
                         image_size(image))

\* apply_kernel reaches its loops
apply_runs(isNull, image, size, divisor, outcome) ==
    /\ ~isNull /\ image.alloc
    /\ ~rejected(size, divisor)
    /\ outcome = "ok"

\* what the call does to `ub`: a wrapped bound, or a load from image or a
\* store to tmp that leaves the block (the two have the same layout)
apply_ub(isNull, image, size, divisor, outcome) ==
    IF ~apply_runs(isNull, image, size, divisor, outcome) THEN ub
    ELSE IF loop_wraps(image, size \div 2) THEN "int_overflow"
    ELSE IF \E p \in Interior(image, size \div 2), dx, dy \in (0 - size \div 2) .. (size \div 2) :
                Overruns(image, Offset(image, p[1] + dx, p[2] + dy),
                         image_getpixel_span(image))
         THEN "overrun" ELSE ub

(* ------------------ calls on kernels.c, with the filter ---------------- *)

\* (width, height, bpp) of the images the filter is run on: images with
\* one interior pixel and with two, and images narrower or lower than the
\* kernels
FilterArgs ==
    { <<3, 3, 1>>, <<4, 3, 3>>, <<3, 3, 4>>, <<2, 3, 4>>, <<1, 1, 3>> }

\* the n x n kernel with weights 1 2 1 / 2 4 2 / 1 2 1 (for n = 3 the
\* kernel of filter_smooth_3x3_gauss)
Weights121(n) ==
    [i \in 1 .. n |-> [j \in 1 .. n |->
        (IF 2 * i = n + 1 THEN 2 ELSE 1) * (IF 2 * j = n + 1 THEN 2 ELSE 1)]]

\* the n x n kernel of ones
Ones(n) == [i \in 1 .. n |-> [j \in 1 .. n |-> 1]]

\* the kernel of filter_smooth_3x3_block and its divisor
smooth_3x3_block == <<3, Ones(3), 9>>

\* the kernel of filter_smooth_3x3_sharpen and its divisor
smooth_3x3_sharpen == <<3, << <<0, 0 - 1, 0>>, <<0 - 1, 5, 0 - 1>>, <<0, 0 - 1, 0>> >>, 1>>

\* (size, kernel, divisor) triples handed to apply_kernel: two presets, a
\* 5x5 kernel, the sharpen kernel with a negative divisor, and a zero
\* divisor, an even size, a zero size and a negative size
KernelCalls ==
    { smooth_3x3_block, smooth_3x3_sharpen, <<5, Ones(5), 25>>,
      <<3, smooth_3x3_sharpen[2], 0 - 2>>,
      <<3, Ones(3), 0>>, <<2, Ones(2), 4>>, <<0, Ones(0), 1>>,
      <<0 - 1, Ones(0), 1>> }

\* apply_kernel calls: target, (size, kernel, divisor), and what malloc
\* does inside the call
ApplyCalls ==
    { <<t, k, "ok">> : t \in {"image", "cloned"}, k \in KernelCalls }
        \cup { <<"NULL", smooth_3x3_block, "ok">>,
               <<"image", smooth_3x3_block, "fail">> }

\* image_putpixel calls on either struct
PaintCalls ==
    { <<t, pt, c>> : t \in {"image", "cloned"},
                     pt \in { <<0, 0>>, <<1, 1>> }, c \in Colours }

\* a block as malloc may return it, holding by chance the bytes 10, 20,
\* 30, 40 over and over: an image of one colour with distinct channels
Tinted(im) ==
    [im EXCEPT !.pixels = [i \in 1 .. Len(im.pixels) |->
                              <<10, 20, 30, 40>>[((i - 1) % im.bpp) + 1]]]

InitFilter ==
    /\ \E a \in FilterArgs, m \in MallocOutcomes, tint \in BOOLEAN :
          img = [t \in {"image", "cloned"} |->
                   IF t = "image"
                   THEN IF tint /\ m = <<"ok", 9>>
                        THEN Tinted(image_create(a[1], a[2], a[3], m[1], m[2]))
                        ELSE image_create(a[1], a[2], a[3], m[1], m[2])
                   ELSE NoImage]
          /\ last = [Call("create", "image", NoImage) EXCEPT !.args = a, !.malloc = m[1]]
    /\ prev = Brief(Call("none", "NULL", NoImage))
    /\ nops = 0
    /\ ub = "none"
    /\ run = NoRun
    /\ blk = [t \in {"image", "cloned"} |->
                IF t = "image" /\ img[t].alloc THEN 1 ELSE 0]

Paint ==
    /\ Running
    /\ \E k \in PaintCalls :
          LET t == k[1]  x == k[2][1]  y == k[2][2]  c == k[3] IN
          /\ img' = Put(t, image_putpixel(FALSE, Deref(t), x, y,
                                          c[1], c[2], c[3], c[4]))
          /\ last' = [Call("putpixel", t, Deref(t)) EXCEPT !.x = x, !.y = y, !.c = c]
          /\ ub' = Touch(t, x, y, image_putpixel_span(Deref(t)))
    /\ nops' = nops + 1
    /\ prev' = Brief(last)
    /\ run' = NoRun
    /\ UNCHANGED blk

\* what an uninitialised output slot of image_getpixel can hold; it is read
\* only when a loop bound has wrapped
Uninit(t, size, divisor) ==
    IF apply_runs(t = "NULL", Deref(t), size, divisor, "ok")
       /\ loop_wraps(Deref(t), size \div 2)
    THEN HeapFill ELSE {0}

Apply ==
    /\ Running
    /\ \E k \in ApplyCalls :
          LET t == k[1]  size == k[2][1]  kernel == k[2][2]  divisor == k[2][3]
              outcome == k[3] IN
          \E uninit \in Uninit(t, size, divisor) :
          /\ img' = Put(t, apply_kernel(t = "NULL", Deref(t), size, kernel,
                                        divisor, outcome, uninit))
          /\ last' = [Call("apply", t, Deref(t)) EXCEPT
                          !.args = <<size, divisor, 0>>, !.kernel = kernel,
                          !.malloc = outcome]
          /\ ub' = apply_ub(t = "NULL", Deref(t), size, divisor, outcome)
    /\ nops' = nops + 1
    /\ prev' = Brief(last)
    /\ run' = NoRun
    /\ UNCHANGED blk

\* image_size dereferences its argument without a check
Size ==
    /\ Running
    /\ \E t \in {"NULL", "image", "cloned"} :
          /\ last' = [Call("size", t, Deref(t)) EXCEPT
                          !.ret = IF t = "NULL" THEN Unset ELSE image_size(img[t])]
          /\ ub' = IF t = "NULL" THEN "null_deref" ELSE ub
    /\ nops' = nops + 1
    /\ prev' = Brief(last)
    /\ run' = NoRun
    /\ UNCHANGED <<img, blk>>

NextFilter == Clone \/ Clear \/ Paint \/ Apply \/ Size

SpecFilter == InitFilter /\ [][NextFilter]_vars

(* ---------------------- svitava_.c: image_line ------------------------- *)

\* 2^30: an int holds -2 * IntHalf .. 2 * IntHalf - 1, and twice an int
\* from IntHalf on does not fit an int
IntHalf == 1073741824

\* b - a fits an int
span_fits(a, b) ==
    IF a < 0 /\ b >= 0 THEN b - ((IntHalf - 1) + IntHalf) <= a
    ELSE IF b < 0 /\ a >= 0 THEN b >= (a - IntHalf) - IntHalf
    ELSE TRUE

\* the initial error term with the half rounded the other way
line_err_up(dx, dy) == Quot((IF dx > dy THEN dx ELSE 0 - dy) + 1, 2)

\* int err = (dx>dy ? dx : -dy)/2
line_err(dx, dy) == Quot(IF dx > dy THEN dx ELSE 0 - dy, 2)

\* the while loop of image_line: the points handed to image_putpixel, in
\* order, from (x1, y1) on
RECURSIVE line_loop(_, _, _, _, _, _, _, _, _)
line_loop(x1, y1, x2, y2, dx, dy, sx, sy, err) ==
    IF x1 = x2 /\ y1 = y2 THEN << <<x1, y1>> >>
    ELSE LET stepX == err > 0 - dx
             stepY == err < dy
             errX  == IF stepX THEN err - dy ELSE err
             errY  == IF stepY THEN errX + dx ELSE errX
         IN  << <<x1, y1>> >>
                 \o line_loop(IF stepX THEN x1 + sx ELSE x1,
                              IF stepY THEN y1 + sy ELSE y1,
                              x2, y2, dx, dy, sx, sy, errY)

line_points(x1, y1, x2, y2) ==
    line_loop(x1, y1, x2, y2, Abs(x2 - x1), Abs(y2 - y1),
              IF x1 < x2 THEN 1 ELSE 0 - 1, IF y1 < y2 THEN 1 ELSE 0 - 1,
              line_err(Abs(x2 - x1), Abs(y2 - y1)))

\* image_putpixel called with colour c at the points pts[i], pts[i+1], ...
RECURSIVE plot_points(_, _, _, _)
plot_points(im, pts, i, c) ==
    IF i > Len(pts) THEN im
    ELSE plot_points(sv_image_putpixel(im, pts[i][1], pts[i][2],
                                       c[1], c[2], c[3], c[4]),
                     pts, i + 1, c)

image_line(im, x1, y1, x2, y2, c) ==
    plot_points(im, line_points(x1, y1, x2, y2), 1, c)

(* ---------------- calls on svitava_.c: the line drawing ---------------- *)

\* number of lines drawn on the image
MaxLines == 1

\* largest coordinate of an end point
MaxCoord == 4

\* (width, height, bpp) of the image the lines are drawn on: the end
\* points with a coordinate of 4 or more lie outside it
LineArgs == { <<4, 4, 4>> }

\* the first end points of the lines: corners, and a point left of the image
Anchors == { <<0, 0>>, <<MaxCoord, 0>>, <<1, MaxCoord>>, <<0 - 1, 2>> }

\* image_line calls: an anchor, any point of the grid, a colour
LineCalls ==
    { <<"image", p, q, <<200, 5, 30, 0>> >> :
          p \in Anchors, q \in (0 .. MaxCoord) \X (0 .. MaxCoord) }
        \cup { <<"NULL", <<0, 0>>, <<1, 1>>, <<200, 5, 30, 0>> >> }

InitLine ==
    /\ \E a \in LineArgs, m \in MallocOutcomes :
          img = [t \in {"image", "cloned"} |->
                   IF t = "image"
                   THEN image_create(a[1], a[2], a[3], m[1], m[2])
                   ELSE NoImage]
          /\ last = [Call("create", "image", NoImage) EXCEPT !.args = a, !.malloc = m[1]]
    /\ prev = Brief(Call("none", "NULL", NoImage))
    /\ nops = 0
    /\ ub = "none"
    /\ run = NoRun
    /\ blk = [t \in {"image", "cloned"} |->
                IF t = "image" /\ img[t].alloc THEN 1 ELSE 0]

\* some point of pts lies in the image
Reaches(t, pts) ==
    \E i \in 1 .. Len(pts) : ~OutOfRange(img[t], pts[i][1], pts[i][2])

Line ==
    /\ nops < MaxLines /\ ub # "null_deref"
    /\ \E k \in LineCalls :
          LET t == k[1]  x1 == k[2][1]  y1 == k[2][2]
              x2 == k[3][1]  y2 == k[3][2]  c == k[4]
              pts == line_points(x1, y1, x2, y2)
              crash == NullDeref(t, Reaches(t, pts)) IN
          /\ img' = IF crash THEN img
                    ELSE Put(t, image_line(Deref(t), x1, y1, x2, y2, c))
          /\ ub' = IF crash THEN "null_deref" ELSE ub
          /\ last' = [Call("line", t, Deref(t)) EXCEPT
                          !.x = x1, !.y = y1, !.x2 = x2, !.y2 = y2, !.c = c,
                          !.pts = pts]
    /\ nops' = nops + 1
    /\ prev' = Brief(last)
    /\ run' = NoRun
    /\ UNCHANGED blk

(* ----------- svitava_.c: image_line_aa; gfx.c: gfx_aa_line ------------- *)

sv_image_putpixel_max(im, x, y, r, g, b, a, wild) ==
    IF OutOfRange(im, x, y) THEN im
    ELSE LET p == Offset(im, x, y)
         IN  Store(MaxStore(MaxStore(MaxStore(im, p, r, wild), p + 1, g, wild),
                            p + 2, b, wild),
                   p + 3, a)

\* gfx_putpixel on a surface of 24 or 32 bits per pixel whose rows follow
\* one another without padding (pitch = w * bytes per pixel); the surface
\* is held in an image struct, bpp being its bytes per pixel
gfx_putpixel(surface, x, y, r, g, b) ==
    IF ~(x >= 0 /\ x < surface.width /\ y >= 0 /\ y < surface.height)
    THEN surface
    ELSE IF surface.bpp \in {3, 4}
         THEN LET p == x * surface.bpp + y * (surface.width * surface.bpp)
              IN  Store(Store(Store(surface, p, b), p + 1, g), p + 2, r)
         ELSE surface

RECURSIVE gfx_span(_, _, _, _, _, _, _)
gfx_span(surface, x, y, n, stepX, stepY, c) ==
    IF n = 0 THEN surface
    ELSE gfx_span(gfx_putpixel(surface, x, y, c[1], c[2], c[3]),
                  x + stepX, y + stepY, n - 1, stepX, stepY, c)

gfx_hline(surface, x1, x2, y, c) ==
    gfx_span(surface, Min2(x1, x2), y, Max2(x1, x2) - Min2(x1, x2) + 1, 1, 0, c)

gfx_vline(surface, x, y1, y2, c) ==
    gfx_span(surface, x, Min2(y1, y2), Max2(y1, y2) - Min2(y1, y2) + 1, 0, 1, c)

\* the loop variables of image_line_aa and gfx_aa_line before the loop, for
\* x1 # x2 and y1 # y2.  The slope s is num / den: after the swap x1 < x2,
\* so dy/dx and dx/dy have the sign of y2 - y1, and s = -s makes s positive.
aa_setup(x1, y1, x2, y2) ==
    LET dx == x2 - x1
        dy == y2 - y1
        X1 == IF x1 > x2 THEN x2 ELSE x1
        Y1 == IF x1 > x2 THEN y2 ELSE y1
        X2 == IF x1 > x2 THEN x1 ELSE x2
        Y2 == IF x1 > x2 THEN y1 ELSE y2
        up == IF Y2 > Y1 THEN 1 ELSE 0 - 1
    IN  IF Abs(dx) > Abs(dy)
        THEN [num |-> Abs(dy), den |-> Abs(dx), imin |-> X1, imax |-> X2,
              x |-> X1, y |-> Y1, xdelta |-> 1, ydelta |-> 0,
              xpdelta |-> 0, xp |-> 0, ypdelta |-> up, yp |-> up]
        ELSE IF Y2 > Y1
        THEN [num |-> Abs(dx), den |-> Abs(dy), imin |-> Y1, imax |-> Y2,
              x |-> X1, y |-> Y1, xdelta |-> 0, ydelta |-> 1,
              xpdelta |-> 1, xp |-> 1, ypdelta |-> 0, yp |-> 0]
        ELSE [num |-> Abs(dx), den |-> Abs(dy), imin |-> Y2, imax |-> Y1,
              x |-> X2, y |-> Y2, xdelta |-> 0, ydelta |-> 1,
              xpdelta |-> 0 - 1, xp |-> 0 - 1, ypdelta |-> 0, yp |-> 0]

\* the doubles s, p = s * 256 and e hold their values exactly when the
\* divisor of the slope is a power of two
ExactSlope(x1, y1, x2, y2) ==
    Max2(Abs(x2 - x1), Abs(y2 - y1)) \in {1, 2, 4, 8}

\* c1 * v / 255 on ints
Scale(v, c) == (v * c) \div 255

\* the loop of image_line_aa from step i on; e is held as E = e * den.
\* Yields the calls of image_putpixel_max as <<x, y, r, g, b>>.
RECURSIVE line_aa_loop(_, _, _, _, _, _)
line_aa_loop(s, i, x, y, E, c) ==
    IF i > s.imax THEN <<>>
    ELSE LET c1   == E \div s.den
             c2   == 255 - c1
             E1   == E + 256 * s.num
             wrap == E1 >= 256 * s.den
         IN  << <<x + s.xp, y + s.yp, Scale(c[1], c1), Scale(c[2], c1), Scale(c[3], c1)>>,
                <<x, y, Scale(c[1], c2), Scale(c[2], c2), Scale(c[3], c2)>> >>
               \o line_aa_loop(s, i + 1,
                               x + s.xdelta + (IF wrap THEN s.xpdelta ELSE 0),
                               y + s.ydelta + (IF wrap THEN s.ypdelta ELSE 0),
                               IF wrap THEN E1 - 256 * s.den ELSE E1, c)

\* no channel is kept opaque: every channel takes the coverage
Translucent(v, c) == c

\* a channel equal to 255 is not attenuated; any other is replaced by the
\* coverage
Opaque(v, c) == IF v = 255 THEN 255 ELSE c

\* the loop of gfx_aa_line from step i on; yields the calls of gfx_putpixel
RECURSIVE gfx_aa_loop(_, _, _, _, _, _)
gfx_aa_loop(s, i, x, y, E, c) ==
    IF i > s.imax THEN <<>>
    ELSE LET c1   == E \div s.den
             c2   == 255 - c1
             E1   == E - 256 * s.num
             wrap == E1 < 0
         IN  << <<x + s.xp, y + s.yp, Opaque(c[1], c1), Opaque(c[2], c1), Opaque(c[3], c1)>>,
                <<x, y, Opaque(c[1], c2), Opaque(c[2], c2), Opaque(c[3], c2)>> >>
               \o gfx_aa_loop(s, i + 1,
                              x + s.xdelta + (IF wrap THEN s.xpdelta ELSE 0),
                              y + s.ydelta + (IF wrap THEN s.ypdelta ELSE 0),
                              IF wrap THEN E1 + 256 * s.den ELSE E1, c)

\* the calls image_line_aa makes on image_putpixel_max (e = 0.0 at first)
line_aa_writes(x1, y1, x2, y2, c) ==
    LET s == aa_setup(x1, y1, x2, y2) IN line_aa_loop(s, s.imin, s.x, s.y, 0, c)

\* the calls gfx_aa_line makes on gfx_putpixel (e = 255.0 at first)
gfx_aa_writes(x1, y1, x2, y2, c) ==
    LET s == aa_setup(x1, y1, x2, y2)
    IN  gfx_aa_loop(s, s.imin, s.x, s.y, 255 * s.den, c)

RECURSIVE plot_max(_, _, _, _, _)
plot_max(im, ws, i, a, wild) ==
    IF i > Len(ws) THEN im
    ELSE plot_max(sv_image_putpixel_max(im, ws[i][1], ws[i][2], ws[i][3],
                                        ws[i][4], ws[i][5], a, wild),
                  ws, i + 1, a, wild)

image_line_aa(im, x1, y1, x2, y2, c, wild) ==
    IF x1 = x2 THEN image_vline(im, x1, y1, y2, c)
    ELSE IF y1 = y2 THEN image_hline(im, x1, x2, y1, c)
    ELSE plot_max(im, line_aa_writes(x1, y1, x2, y2, c), 1, c[4], wild)

RECURSIVE gfx_plot(_, _, _)
gfx_plot(surface, ws, i) ==
    IF i > Len(ws) THEN surface
    ELSE gfx_plot(gfx_putpixel(surface, ws[i][1], ws[i][2], ws[i][3],
                               ws[i][4], ws[i][5]),
                  ws, i + 1)

gfx_aa_line(surface, x1, y1, x2, y2, c) ==
    IF x1 = x2 THEN gfx_vline(surface, x1, y1, y2, c)
    ELSE IF y1 = y2 THEN gfx_hline(surface, x1, x2, y1, c)
    ELSE gfx_plot(surface, gfx_aa_writes(x1, y1, x2, y2, c), 1)

(* ------------- calls of image_line_aa and of gfx_aa_line --------------- *)

\* colours of the anti-aliased lines: one with a channel equal to 255
AAColours == { <<255, 100, 0, 40>>, <<200, 5, 30, 0>> }

\* calls of the anti-aliased lines: from two anchors to the points of the
\* grid that make the line axis-aligned or its slope exact
AACalls ==
    { k \in { <<"image", p, q, c>> :
                  p \in { <<0, 0>>, <<MaxCoord, 1>> },
                  q \in (0 .. MaxCoord) \X (0 .. MaxCoord), c \in AAColours } :
          \/ k[2][1] = k[3][1]
          \/ k[2][2] = k[3][2]
          \/ ExactSlope(k[2][1], k[2][2], k[3][1], k[3][2]) }
        \cup { <<"NULL", <<0, 0>>, <<2, 1>>, <<255, 100, 0, 40>> >> }

\* the calls on the pixel writer that a call of an anti-aliased line makes
\* itself (none when it hands the line to the vline or hline function)
AAWrites(ws, x1, y1, x2, y2) == IF x1 = x2 \/ y1 = y2 THEN <<>> ELSE ws

\* some pixel the line is to write lies in the image
AAReaches(t, ws, x1, y1, x2, y2) ==
    IF x1 = x2 THEN SpanReaches(t, {x1}, Min2(y1, y2) .. Max2(y1, y2))
    ELSE IF y1 = y2 THEN SpanReaches(t, Min2(x1, x2) .. Max2(x1, x2), {y1})
    ELSE Reaches(t, ws)

LineAA ==
    /\ nops < MaxLines /\ ub # "null_deref"
    /\ \E k \in AACalls :
          LET t == k[1]  x1 == k[2][1]  y1 == k[2][2]
              x2 == k[3][1]  y2 == k[3][2]  c == k[4]
              ws == AAWrites(line_aa_writes(x1, y1, x2, y2, c), x1, y1, x2, y2)
              crash == NullDeref(t, AAReaches(t, ws, x1, y1, x2, y2)) IN
          /\ img' = IF crash THEN img
                    ELSE Put(t, image_line_aa(Deref(t), x1, y1, x2, y2, c, 0))
          /\ ub' = IF crash THEN "null_deref" ELSE ub
          /\ last' = [Call("line_aa", t, Deref(t)) EXCEPT
                          !.x = x1, !.y = y1, !.x2 = x2, !.y2 = y2, !.c = c,
                          !.writes = ws]
    /\ nops' = nops + 1
    /\ prev' = Brief(last)
    /\ run' = NoRun
    /\ UNCHANGED blk

GfxAALine ==
    /\ nops < MaxLines /\ ub # "null_deref"
    /\ \E k \in AACalls :
          LET t == k[1]  x1 == k[2][1]  y1 == k[2][2]
              x2 == k[3][1]  y2 == k[3][2]  c == k[4]
              ws == AAWrites(gfx_aa_writes(x1, y1, x2, y2, c), x1, y1, x2, y2)
              crash == NullDeref(t, AAReaches(t, ws, x1, y1, x2, y2)) IN
          /\ img' = IF crash THEN img
                    ELSE Put(t, gfx_aa_line(Deref(t), x1, y1, x2, y2, c))
          /\ ub' = IF crash THEN "null_deref" ELSE ub
          /\ last' = [Call("gfx_aa_line", t, Deref(t)) EXCEPT
                          !.x = x1, !.y = y1, !.x2 = x2, !.y2 = y2, !.c = c,
                          !.writes = ws]
    /\ nops' = nops + 1
    /\ prev' = Brief(last)
    /\ run' = NoRun
    /\ UNCHANGED blk

\* image_line calls between points further apart than an int holds
FarCalls ==
    { <<"image", <<(0 - IntHalf) - 1, 0>>, <<IntHalf, 1>>, <<200, 5, 30, 0>> >>,
      <<"image", <<0, IntHalf>>, <<0, (0 - IntHalf) - 1>>, <<200, 5, 30, 0>> >> }

\* image_line where x2 - x1 or y2 - y1 overflows: the program is stopped,
\* or the difference wraps, the steps of the two axes no longer lead to
\* (x2, y2) at the same time and the loop does not end; the points it
\* passes lie outside the image
LineFar ==
    /\ nops < MaxLines /\ ub # "null_deref"
    /\ \E k \in FarCalls, end \in {"stopped", "endless"} :
          /\ ~(span_fits(k[2][1], k[3][1]) /\ span_fits(k[2][2], k[3][2]))
          /\ last' = [Call("line", k[1], Deref(k[1])) EXCEPT
                          !.x = k[2][1], !.y = k[2][2], !.x2 = k[3][1],
                          !.y2 = k[3][2], !.c = k[4], !.result = end]
    /\ ub' = "int_overflow"
    /\ nops' = nops + 1
    /\ prev' = Brief(last)
    /\ run' = NoRun
    /\ UNCHANGED <<img, blk>>

NextLine == Line \/ LineAA \/ GfxAALine \/ LineFar

SpecLine == InitLine /\ [][NextLine]_vars

(* ------------ kernels.c: the rows of apply_kernel, in any order --------- *)
(* The loop over y of apply_kernel carries nothing from one row to the     *)
(* next but the two buffers: here every row of the interior is handed to   *)
(* a worker of its own, which runs the body of the loop over x for its     *)
(* row, and the workers' pixels are taken in any order.                    *)

\* the filter run in place: the taps are loaded from the buffer written to
row_source_in_place(image, tmp) == tmp

\* the struct handed to image_getpixel inside the loops: image, not tmp
row_source(image, tmp) == image

\* the bytes image_getpixel loads for the taps of pixel (x, y)
tap_loads(im, x, y, size) ==
    { Offset(im, x + dx, y + dy) + j :
        dx \in (0 - size \div 2) .. (size \div 2),
        dy \in (0 - size \div 2) .. (size \div 2),
        j \in 0 .. (image_getpixel_span(im) - 1) }

\* the bytes image_putpixel stores for pixel (x, y)
pixel_stores(im, x, y) ==
    { Offset(im, x, y) + j : j \in 0 .. (image_putpixel_span(im) - 1) }

\* the body of the loop over x at pixel (x, y): tmp afterwards
row_step(source, tmp, x, y, size, kernel, divisor) ==
    LET c == filtered_pixel(source, x, y, size, kernel, divisor, 0)
    IN  image_putpixel(FALSE, tmp, x, y, c[1], c[2], c[3], c[4])

\* (width, height, bpp) of the images filtered row by row: two rows of one
\* and of two interior pixels for the 3x3 kernels, images every pixel of
\* which a 1x1 kernel visits, and an RGBA buffer for render_julia
RowArgs == { <<3, 4, 1>>, <<4, 4, 3>>, <<2, 2, 1>>, <<2, 3, 4>> }

\* the most pixels a filter run row by row may visit
MaxRowPixels == 12

\* (size, kernel, divisor) triples of the filters run row by row
RowKernels ==
    { smooth_3x3_block, smooth_3x3_sharpen, <<1, << <<3>> >>, 2>>,
      <<5, Ones(5), 25>> }

\* a block as malloc may return it, no two neighbouring bytes alike
Speckled(im) ==
    [im EXCEPT !.pixels = [i \in 1 .. Len(im.pixels) |-> (i * i * 5 + 3 * i) % 251]]

InitRows ==
    /\ \E a \in RowArgs, f \in HeapFill, speckle \in BOOLEAN :
          img = [t \in {"image", "cloned"} |->
                   IF t = "image"
                   THEN IF speckle /\ f = 9
                        THEN Speckled(image_create(a[1], a[2], a[3], "ok", f))
                        ELSE image_create(a[1], a[2], a[3], "ok", f)
                   ELSE NoImage]
          /\ last = [Call("create", "image", NoImage) EXCEPT !.args = a, !.malloc = "ok"]
    /\ prev = Brief(Call("none", "NULL", NoImage))
    /\ nops = 0
    /\ ub = "none"
    /\ run = NoRun
    /\ blk = [t \in {"image", "cloned"} |-> IF t = "image" THEN 1 ELSE 0]

\* no call of apply_kernel is under way
Idle == last.op \notin {"rows", "render"}

\* apply_kernel up to its loops: the guards passed, the clone made
StartRows ==
    /\ Running /\ Idle /\ ub = "none"
    /\ \E k \in RowKernels, f \in HeapFill :
          LET size == k[1]  kernel == k[2]  divisor == k[3]
              tmp  == image_clone(FALSE, img["image"], "ok", f) IN
          /\ apply_runs(FALSE, img["image"], size, divisor, "ok")
          /\ ~loop_wraps(tmp, size \div 2)
          /\ Cardinality(Interior(tmp, size \div 2)) <= MaxRowPixels
          /\ img' = [img EXCEPT !["cloned"] = tmp]
          /\ blk' = [blk EXCEPT !["cloned"] = clone_pixels(blk["image"], 2)]
          /\ last' = [Call("rows", "image", img["image"]) EXCEPT
                          !.args = <<size, divisor, 0>>, !.kernel = kernel,
                          !.malloc = "ok",
                          !.pts = [y \in 1 .. tmp.height |-> size \div 2],
                          !.writes = {}, !.reads = {}]
    /\ prev' = Brief(last)
    /\ run' = NoRun
    /\ UNCHANGED <<nops, ub>>

\* the rows the loop over y visits
Rows(im, limit) == limit .. (im.height - limit - 1)

\* the worker of row y has pixels left
RowOpen(y) ==
    last.pts[y + 1] < img["cloned"].width - last.args[1] \div 2

\* the worker of one row computes its next pixel
Row ==
    /\ last.op = "rows"
    /\ \E y \in Rows(img["cloned"], last.args[1] \div 2) :
          LET size == last.args[1]
              x    == last.pts[y + 1]
              from == row_source("image", "cloned")
              tmp  == row_step(img[from], img["cloned"], x, y, size,
                               last.kernel, last.args[2]) IN
          /\ RowOpen(y)
          /\ img' = Put("cloned", tmp)
          /\ last' = [last EXCEPT
                          !.x = x, !.y = y,
                          !.pts = [@ EXCEPT ![y + 1] = x + 1],
                          !.y2 = IF \E y0 \in Rows(img["cloned"], size \div 2) :
                                       y0 < y /\ RowOpen(y0)
                                 THEN 1 ELSE @,
                          !.reads = { <<y, blk[from], b>> :
                                        b \in tap_loads(img[from], x, y, size) },
                          !.writes = @ \cup
                                     { <<y, blk["cloned"], b>> :
                                         b \in pixel_stores(img["cloned"], x, y) }]
          /\ ub' = IF \/ \E b \in tap_loads(img[from], x, y, size) :
                             b >= Len(img[from].pixels)
                      \/ \E b \in pixel_stores(img["cloned"], x, y) :
                             b >= Len(img["cloned"].pixels)
                   THEN "overrun" ELSE ub
    /\ UNCHANGED <<prev, nops, run, blk>>

\* every worker is through: the memcpy back to image, and free(tmp.pixels)
Join ==
    /\ last.op = "rows"
    /\ \A y \in Rows(img["cloned"], last.args[1] \div 2) : ~RowOpen(y)
    /\ img' = [img EXCEPT
                  !["image"] = memcpy(img["image"], img["cloned"],
                                      image_size(img["image"])),
                  !["cloned"] = NoImage]
    /\ blk' = [blk EXCEPT !["cloned"] = 0]
    /\ last' = [last EXCEPT !.op = "rows_done"]
    /\ nops' = nops + 1
    /\ UNCHANGED <<prev, ub, run>>

(* ------------- renderer.c: the rows of render_julia, in any order ------- *)
(* The loop over y of render_julia carries the pixel pointer p and zy0     *)
(* from one row to the next: both are advanced by amounts that do not      *)
(* depend on what is drawn, so the worker of row y starts with the values  *)
(* the loop has when it reaches row y.  The doubles are multiples of       *)
(* 1/Unit; the widths, heights and parameters below keep every sum and     *)
(* every product that is compared an exact multiple, as it is in a double. *)

\* the doubles of render_julia are counted in sixteenths
Unit == 16

\* generate_palette: entry i of the palette
generate_palette(i) ==
    IF i < 32 THEN <<0, 4 + i * 6, 0>>
    ELSE IF i < 64 THEN <<4 + (i - 32) * 6,
                          IF (i - 32) * 2 < 52 THEN 200 + (i - 32) * 2 ELSE 252, 0>>
    ELSE IF i < 96 THEN <<IF (i - 64) * 2 < 52 THEN 200 + (i - 64) * 2 ELSE 252,
                          252, (i - 64) * 6>>
    ELSE IF i < 144 THEN <<252, 252, 252 - (i - 96) * 6>>
    ELSE IF i < 192 THEN <<252 - (i - 144) * 6, 252, 0>>
    ELSE IF i < 240 THEN <<0, 252 - (i - 192) * 6, 0>>
    ELSE <<0, 0, 0>>

\* the palette offset putpixel reads at: the index clamped to 0 .. 255,
\* times three
color_offset(color_index) == Clamp(color_index) * 3

\* putpixel: the three stores at offset p; the pointer moves on by four
putpixel(im, p, color_index) ==
    LET pal == generate_palette(color_offset(color_index) \div 3)
    IN  Store(Store(Store(im, p, pal[1]), p + 1, pal[2]), p + 2, pal[3])

\* the while loop of render_julia: the iteration count i at which it ends
RECURSIVE julia_iter(_, _, _, _, _, _)
julia_iter(zx, zy, cx, cy, i, maxiter) ==
    IF i >= maxiter THEN i
    ELSE IF zx * zx + zy * zy > 4 * Unit * Unit THEN i
    ELSE julia_iter(Quot(zx * zx - zy * zy, Unit) + cx,
                    Quot(2 * zx * zy, Unit) + cy, cx, cy, i + 1, maxiter)

\* zx0 in column x and zy0 in row y: xmin and ymin (-1.5) after x and y
\* additions of (xmax - xmin) / width and (ymax - ymin) / height
julia_zx0(im, x) == 0 - (3 * Unit) \div 2 + x * ((3 * Unit) \div im.width)

julia_zy0(im, y) == 0 - (3 * Unit) \div 2 + y * ((3 * Unit) \div im.height)

\* the offset of p when the loop over y reaches row y: four bytes a pixel
row_start(im, y) == 4 * im.width * y

\* the body of the loop over x at pixel (x, y), p being `p`: im afterwards
julia_step(im, p, x, y, cx, cy, maxiter) ==
    putpixel(im, p, julia_iter(julia_zx0(im, x), julia_zy0(im, y), cx, cy,
                               0, maxiter))

\* the two loops of render_julia from pixel (x, y) on
RECURSIVE julia_loop(_, _, _, _, _, _, _)
julia_loop(im, p, x, y, cx, cy, maxiter) ==
    IF y >= im.height THEN im
    ELSE IF x >= im.width THEN julia_loop(im, p, 0, y + 1, cx, cy, maxiter)
    ELSE julia_loop(julia_step(im, p, x, y, cx, cy, maxiter), p + 4, x + 1, y,
                    cx, cy, maxiter)

render_julia(isNull, im, cx, cy, maxiter) ==
    IF isNull \/ ~im.alloc THEN im
    ELSE julia_loop(im, 0, 0, 0, cx, cy, maxiter)

\* (cx, cy, maxiter) of the renders, cx and cy in sixteenths
JuliaCalls == { <<0, 0, 2>>, <<0 - Unit, 0, 2>>, <<4, 8, 1>> }

\* render_julia up to its loops; the buffer holds four bytes a pixel, as
\* the one render_test_image allocates
StartRender ==
    /\ Running /\ Idle /\ ub = "none"
    /\ img["image"].alloc /\ img["image"].bpp = RGBA
    /\ \E k \in JuliaCalls :
          last' = [Call("render", "image", img["image"]) EXCEPT
                       !.args = k,
                       !.pts = [y \in 1 .. img["image"].height |-> 0],
                       !.writes = {}, !.reads = {}]
    /\ prev' = Brief(last)
    /\ run' = NoRun
    /\ UNCHANGED <<img, nops, ub, blk>>

\* the worker of row y has pixels left
RenderOpen(y) == last.pts[y + 1] < img["image"].width

\* the worker of one row renders its next pixel
RenderRow ==
    /\ last.op = "render"
    /\ \E y \in 0 .. (img["image"].height - 1) :
          LET im == img["image"]
              x  == last.pts[y + 1]
              p  == row_start(im, y) + 4 * x IN
          /\ RenderOpen(y)
          /\ img' = Put("image", julia_step(im, p, x, y, last.args[1],
                                            last.args[2], last.args[3]))
          /\ last' = [last EXCEPT
                          !.x = x, !.y = y,
                          !.pts = [@ EXCEPT ![y + 1] = x + 1],
                          !.y2 = IF \E y0 \in 0 .. (y - 1) : RenderOpen(y0)
                                 THEN 1 ELSE @,
                          !.reads = {},
                          !.writes = @ \cup { <<y, blk["image"], p + j>> : j \in 0 .. 2 }]
    /\ UNCHANGED <<prev, nops, ub, run, blk>>

\* every worker is through: render_julia returns
RenderDone ==
    /\ last.op = "render"
    /\ \A y \in 0 .. (img["image"].height - 1) : ~RenderOpen(y)
    /\ last' = [last EXCEPT !.op = "render_done"]
    /\ nops' = nops + 1
    /\ UNCHANGED <<img, prev, ub, run, blk>>

NextRows == StartRows \/ Row \/ Join \/ StartRender \/ RenderRow \/ RenderDone

SpecRows == InitRows /\ [][NextRows]_vars

(* ------- main.c (sdl_fract_viewer_2), renderer.c: escape-time loops ----- *)
(* The loop run for one pixel.  A double is a pair of bounds lo <= hi in   *)
(* sixteenths: the value lies between them.  Sums and products are rounded *)
(* outwards to sixteenths, which a double holds exactly, so the bounds are *)
(* kept by every operation; a comparison the bounds do not decide has both *)
(* outcomes.                                                               *)

\* the double v / Unit
Dbl(v) == [lo |-> v, hi |-> v]

\* a / b for b > 0, rounded down and rounded up
DivDown(a, b) == a \div b

DivUp(a, b) == 0 - ((0 - a) \div b)

DblAdd(a, b) == [lo |-> a.lo + b.lo, hi |-> a.hi + b.hi]

DblSub(a, b) == [lo |-> a.lo - b.hi, hi |-> a.hi - b.lo]

\* -fabs(a)
DblNegAbs(a) ==
    [lo |-> 0 - Max2(Abs(a.lo), Abs(a.hi)),
     hi |-> IF a.lo <= 0 /\ 0 <= a.hi THEN 0 ELSE 0 - Min2(Abs(a.lo), Abs(a.hi))]

\* the bounds of the products of the bounds
DblMul(a, b) ==
    LET ps == { a.lo * b.lo, a.lo * b.hi, a.hi * b.lo, a.hi * b.hi }
        mn == CHOOSE p \in ps : \A q \in ps : p <= q
        mx == CHOOSE p \in ps : \A q \in ps : p >= q
    IN  [lo |-> DivDown(mn, Unit), hi |-> DivUp(mx, Unit)]

\* a * a: never negative
DblSqr(a) ==
    [lo |-> IF a.lo <= 0 /\ 0 <= a.hi THEN 0
            ELSE DivDown(Min2(a.lo * a.lo, a.hi * a.hi), Unit),
     hi |-> DivUp(Max2(a.lo * a.lo, a.hi * a.hi), Unit)]

\* the outcomes of a > v / Unit
DblGt(a, v) ==
    IF a.lo > v THEN {TRUE} ELSE IF a.hi <= v THEN {FALSE} ELSE BOOLEAN

\* zy = 2.0 * zx * zy + cy; zx = zx2 - zy2 + cx
quadratic(z, zx2, zy2, c) ==
    [zx |-> DblAdd(DblSub(zx2, zy2), c.zx),
     zy |-> DblAdd(DblMul(DblMul(Dbl(2 * Unit), z.zx), z.zy), c.zy)]

\* a, known to be at most v / Unit and at least w / Unit
DblWithin(a, w, v) == [lo |-> Max2(Min2(a.lo, v), w), hi |-> Max2(Min2(a.hi, v), w)]

\* the loops, by the name of their function
Rules ==
    { "draw_fractal_", "draw_fractal_julia", "draw_fractal_julia_mandelbrot",
      "draw_multifractal_mandel_julia", "draw_multifractal", "draw_fractal",
      "render_julia" }

\* the bound of the while: 150, 255, or render_julia's argument
LoopBound(rule, maxiter) ==
    IF rule = "draw_fractal_" THEN 150
    ELSE IF rule = "render_julia" THEN maxiter ELSE 255

\* the loop starts from z = 0, not from the pixel's point
SeedZero(rule) == rule \in {"draw_fractal_", "draw_multifractal_mandel_julia"}

\* two tests and two steps in one pass of the while
TwoSteps(rule) == rule \in {"draw_fractal_julia_mandelbrot", "draw_fractal"}

\* 0.285 and 0.01 lie between two sixteenths
C285 == [zx |-> [lo |-> 4, hi |-> 5], zy |-> [lo |-> 0, hi |-> 1]]

Point(x, y) == [zx |-> Dbl(x), zy |-> Dbl(y)]

\* every step adds 1.0, whatever the pixel
StepC_one(rule, half, i, pixel, param) == Point(Unit, 0)

\* the constant added in the first (half = 1) or second step of a pass
\* that starts with count i; `pixel` is (cx, cy) of the pixel, `param` is
\* (cx, cy) handed to render_julia
StepC(rule, half, i, pixel, param) ==
    CASE rule = "draw_fractal_" -> pixel
      [] rule = "draw_fractal_julia" -> C285
      [] rule = "draw_fractal_julia_mandelbrot" ->
            IF half = 1 THEN Point(0 - Unit, 0) ELSE pixel
      [] rule = "draw_multifractal_mandel_julia" ->
            IF i > 50 THEN Point(0 - (3 * Unit) \div 2, 0) ELSE pixel
      [] rule = "draw_multifractal" ->
            IF i > 20 THEN Point(0, Unit) ELSE Point(0 - (3 * Unit) \div 2, 0)
      [] rule = "draw_fractal" ->
            IF half = 1 THEN Point(0, Unit) ELSE C285
      [] OTHER -> param

\* the test and the step: the orbits [z, i, out] one of them can give.
\* When the test fails zx2 + zy2 <= 4.0, so zx2 <= 4.0 and zy2 <= 4.0.
escape_step(rule, o, c) ==
    LET zx2 == DblSqr(o.z.zx)
        zy2 == DblSqr(o.z.zy)
        zt  == IF rule = "draw_fractal_"
               THEN [o.z EXCEPT !.zx = DblNegAbs(o.z.zx)] ELSE o.z
        nx2 == DblWithin(zx2, 0, 4 * Unit)
        ny2 == DblWithin(zy2, 0, 4 * Unit)
        zn  == [zx |-> DblWithin(zt.zx, 0 - 2 * Unit - 1, 2 * Unit + 1),
                zy |-> DblWithin(zt.zy, 0 - 2 * Unit - 1, 2 * Unit + 1)]
    IN  { IF out THEN [o EXCEPT !.out = TRUE]
          ELSE [z |-> quadratic(zn, nx2, ny2, c), i |-> o.i + 1, out |-> FALSE] :
          out \in DblGt(DblAdd(zx2, zy2), 4 * Unit) }

\* one pass of the while loop
escape_pass(rule, o, pixel, param) ==
    LET first == escape_step(rule, o, StepC(rule, 1, o.i, pixel, param))
    IN  IF ~TwoSteps(rule) THEN first
        ELSE UNION { IF h.out THEN {h}
                     ELSE escape_step(rule, h, StepC(rule, 2, o.i, pixel, param)) :
                     h \in first }

\* r = i*2, g = i*3, b = i*5 stored in three bytes
count_colour(i) == <<(i * 2) % 256, (i * 3) % 256, (i * 5) % 256, 0>>

\* (cx, cy) of the pixels the loops are run for, in sixteenths: the
\* origin, points of long orbits and points that leave at once
EscapePoints ==
    { <<0, 0>>, <<0 - Unit, 0>>, <<4, 8>>, <<0 - 12, 3>>, <<2 * Unit, 0>>,
      <<2 * Unit, 2 * Unit>> }

\* (cx, cy, maxiter) handed to render_julia
RenderArgs == { <<0, 0, 0>>, <<0, 0, 1>>, <<0 - Unit, 0, 3>>, <<0, 0, 255>> }

\* the loops to run: the function, the pixel's point, render_julia's
\* arguments (none for the loops of main.c)
EscapeCalls ==
    { <<rule, p, <<0, 0, 0>> >> : rule \in Rules \ {"render_julia"}, p \in EscapePoints }
        \cup { <<"render_julia", p, a>> : p \in EscapePoints, a \in RenderArgs }

\* the loop of call k before its first pass
Orbit(k) ==
    [rule |-> k[1], pixel |-> Point(k[2][1], k[2][2]),
     param |-> Point(k[3][1], k[3][2]),
     bound |-> LoopBound(k[1], k[3][3]),
     z |-> IF SeedZero(k[1]) THEN Point(0, 0) ELSE Point(k[2][1], k[2][2]),
     i |-> 0, out |-> FALSE, done |-> FALSE]

InitEscape ==
    /\ img = [t \in {"image", "cloned"} |-> NoImage]
    /\ \E k \in EscapeCalls :
          /\ run = Orbit(k)
          /\ last = [Call(k[1], "NULL", NoImage) EXCEPT
                         !.x = k[2][1], !.y = k[2][2], !.args = k[3]]
    /\ prev = Brief(Call("none", "NULL", NoImage))
    /\ nops = 0
    /\ ub = "none"
    /\ blk = [t \in {"image", "cloned"} |-> 0]

\* one pass of the while loop of the pixel
Iterate ==
    /\ ~run.done /\ ~run.out /\ run.i < run.bound
    /\ \E o \in escape_pass(run.rule, [z |-> run.z, i |-> run.i, out |-> FALSE],
                            run.pixel, run.param) :
          run' = [run EXCEPT !.z = o.z, !.i = o.i, !.out = o.out]
    /\ UNCHANGED <<img, last, prev, nops, ub, blk>>

\* the loop is left: the count becomes the pixel's colour
Colour ==
    /\ ~run.done /\ (run.out \/ run.i >= run.bound)
    /\ run' = [run EXCEPT !.done = TRUE]
    /\ last' = [last EXCEPT
                   !.ret = run.i,
                   !.c = IF run.rule = "render_julia"
                         THEN generate_palette(Clamp(run.i)) \o <<0>>
                         ELSE count_colour(run.i)]
    /\ nops' = nops + 1
    /\ UNCHANGED <<img, prev, ub, blk>>

NextEscape == Iterate \/ Colour

SpecEscape == InitEscape /\ [][NextEscape]_vars

(* ------------------------------ svitava.c: plasma --------------------- *)
(* plasma calls itself four times; the calls still to be made are kept on *)
(* a stack, the first of the four on top, so that they are made in the    *)
(* order in which the recursion makes them.  `run` holds the stack, the   *)
(* root call, the palette pointer and the pixels image_putpixel was asked *)
(* to write.                                                              *)

\* fill_in_palette: entry i of the palette render_test_images passes
fill_in_palette(i) == IF i < 255 THEN <<i, i, i>> ELSE <<0, 0, 0>>

\* image_putpixel of svitava.c: one luma byte on depth 1, otherwise r, g, b
\* and, on depth 4, a
plasma_putpixel(im, x, y, c) ==
    IF ~im.alloc THEN im
    ELSE IF x < 0 \/ y < 0 \/ x >= im.width \/ y >= im.height THEN im
    ELSE LET p == (x + y * im.width) * im.bpp
         IN  IF im.bpp = 1
             THEN Store(im, p, (77 * c[1] + 150 * c[2] + 29 * c[3]) \div 256)
             ELSE LET rgb == Store(Store(Store(im, p, c[1]), p + 1, c[2]), p + 2, c[3])
                  IN  IF im.bpp = 4 THEN Store(rgb, p + 3, c[4]) ELSE rgb

avg(x, y) == (x + y) \div 2

step(x, y) == (x - y) \div 2

\* a bound that leaves its argument as it is
bound_off(x) == x

\* bound: if (x>255) x=255; if (x<0) x=0;
bound(x) == IF x > 255 THEN 255 ELSE IF x < 0 THEN 0 ELSE x

\* displac with r the value of rand(); where delta * 2 overflows and wraps
\* it is INT_MIN, and r % INT_MIN is r
displac(x, delta, r) ==
    IF delta < IntHalf THEN x + ((r % (delta * 2)) - delta)
    ELSE x + (r - delta)

\* values of rand() that give the least, the middle and the greatest
\* displacement
Rand(delta) ==
    IF delta < IntHalf THEN {0, delta, delta * 2 - 1}
    ELSE {0, delta, (IntHalf - 1) + IntHalf}

Frame(x1, y1, x2, y2, c1, c2, c3, c4, delta) ==
    [x1 |-> x1, y1 |-> y1, x2 |-> x2, y2 |-> y2,
     c1 |-> c1, c2 |-> c2, c3 |-> c3, c4 |-> c4, delta |-> delta]

\* the four recursive calls of a call f whose centre colour, before
\* bound(dc), is dc
plasma_calls(f, dc) ==
    LET dc12 == avg(f.c1, f.c2)
        dc13 == avg(f.c1, f.c3)
        dc24 == avg(f.c2, f.c4)
        dc34 == avg(f.c3, f.c4)
        dx == step(f.x2, f.x1)
        dy == step(f.y2, f.y1)
        d == bound(dc)
        c1 == bound(f.c1)
        c2 == bound(f.c2)
        c3 == bound(f.c3)
        c4 == bound(f.c4)
        delta == f.delta \div 2
    IN  << Frame(f.x1, f.y1, f.x1 + dx, f.y1 + dy, c1, dc12, dc13, d, delta),
           Frame(f.x1 + dx, f.y1, f.x2, f.y1 + dy, dc12, c2, d, dc24, delta),
           Frame(f.x1, f.y1 + dy, f.x1 + dx, f.y2, dc13, d, c3, dc34, delta),
           Frame(f.x1 + dx, f.y1 + dy, f.x2, f.y2, d, dc24, dc34, c4, delta) >>

\* the centre colour of a call before displac
centre(f) == avg(avg(f.c1, f.c3), avg(f.c2, f.c4))

\* the palette entry the else branch draws with
leaf_index(f) == Quot(f.c1 + f.c2 + f.c3 + f.c4, 4)

\* width, height and depth of the images plasma is run on
PlasmaImages ==
    {<<1, 1, 4>>, <<3, 3, 4>>, <<5, 5, 4>>, <<5, 2, 3>>, <<2, 5, 1>>, <<9, 9, 1>>}

\* render_plasma(image, palette, 0, 0, maxiter) with the palette NULL or
\* not, and plasma called with its corner colours
PlasmaCalls ==
    {<<"render_plasma", "palette", 128, 128, 128, 128, 100>>,
     <<"render_plasma", "palette", 128, 128, 128, 128, 0>>,
     <<"render_plasma", "palette", 128, 128, 128, 128, IntHalf>>,
     <<"render_plasma", "NULL", 128, 128, 128, 128, 100>>,
     <<"plasma", "palette", 255, 255, 255, 255, 100>>,
     <<"plasma", "palette", 0, 0, 0, 0, 100>>,
     <<"plasma", "palette", 0, 255, 255, 0, 3>>}

\* the state in which a call k on image a begins
Tree(a, k, im) ==
    LET root == Frame(0, 0, a[1] - 1, a[2] - 1, k[3], k[4], k[5], k[6], k[7])
    IN  [stack |-> IF k[1] = "render_plasma" /\ (k[2] = "NULL" \/ ~im.alloc)
                   THEN <<>> ELSE <<root>>,
         root |-> root, palette |-> k[2], written |-> {}]

InitPlasma ==
    /\ \E a \in PlasmaImages, m \in MallocOutcomes, k \in PlasmaCalls :
          /\ img = [t \in {"image", "cloned"} |->
                      IF t = "image"
                      THEN image_create(a[1], a[2], a[3], m[1], m[2])
                      ELSE NoImage]
          /\ run = Tree(a, k, image_create(a[1], a[2], a[3], m[1], m[2]))
          /\ last = [Call(k[1], "image", NoImage) EXCEPT
                        !.args = a, !.malloc = m[1], !.result = "called"]
    /\ prev = Brief(Call("none", "NULL", NoImage))
    /\ nops = 0
    /\ ub = "none"
    /\ blk = [t \in {"image", "cloned"} |->
                IF t = "image" /\ img[t].alloc THEN 1 ELSE 0]

\* a call of plasma that takes the if branch: four calls replace it.  Where
\* delta * 2 overflows the call goes on with the wrapped product or the
\* program stops.
Subdivide ==
    /\ run.stack # <<>>
    /\ LET f == Head(run.stack)
       IN  /\ f.x2 - f.x1 > 1
           /\ \E dc \in IF f.x2 - f.x1 > 2 /\ f.delta > 0
                        THEN {displac(centre(f), f.delta, r) : r \in Rand(f.delta)}
                        ELSE {centre(f)},
                 trap \in IF f.x2 - f.x1 > 2 /\ f.delta >= IntHalf
                          THEN BOOLEAN ELSE {FALSE} :
                 /\ run' = [run EXCEPT !.stack =
                               IF trap THEN <<>>
                               ELSE plasma_calls(f, dc) \o Tail(run.stack)]
                 /\ last' = [last EXCEPT !.result = IF trap THEN "trap" ELSE "subdivided",
                                         !.ret = dc]
           /\ ub' = IF f.x2 - f.x1 > 2 /\ f.delta >= IntHalf
                    THEN "int_overflow" ELSE ub
    /\ prev' = Brief(last)
    /\ nops' = nops + 1
    /\ UNCHANGED <<img, blk>>

\* a call of plasma that takes the else branch: one pixel is drawn
Leaf ==
    /\ run.stack # <<>>
    /\ LET f == Head(run.stack)
           i == leaf_index(f)
       IN  /\ f.x2 - f.x1 <= 1
           /\ \E pal \in IF i \in 0 .. 255 THEN {fill_in_palette(i)}
                         ELSE {<<v, v, v>> : v \in HeapFill} :
                 img' = [img EXCEPT !["image"] =
                            plasma_putpixel(@, f.x1, f.y1, <<pal[1], pal[2], pal[3], 0>>)]
           /\ ub' = IF i \in 0 .. 255 THEN ub ELSE "overrun"
           /\ run' = [run EXCEPT !.stack = Tail(@),
                                 !.written = @ \cup {<<f.x1, f.y1>>}]
           /\ last' = [last EXCEPT !.result = "leaf", !.ret = i,
                                   !.x = f.x1, !.y = f.y1]
    /\ prev' = Brief(last)
    /\ nops' = nops + 1
    /\ UNCHANGED blk

\* iteration counts handed to putpixel
Counts == {0 - 1, 0, 100, 255, 256, 1000}

\* putpixel of renderer.c on the first pixel of the buffer, once the
\* plasma is drawn
PutCount ==
    /\ run.stack = <<>>
    /\ last.op # "putpixel_indexed"
    /\ img["image"].alloc
    /\ img["image"].bpp = 4
    /\ \E i \in Counts :
          /\ img' = [img EXCEPT !["image"] = putpixel(@, 0, i)]
          /\ last' = [Call("putpixel_indexed", "image", img["image"]) EXCEPT
                         !.args = last.args, !.x2 = i,
                         !.ret = color_offset(i)]
    /\ prev' = Brief(last)
    /\ nops' = nops + 1
    /\ UNCHANGED <<ub, run, blk>>

NextPlasma == Subdivide \/ Leaf \/ PutCount

SpecPlasma == InitPlasma /\ [][NextPlasma]_vars

(* ------------------------------ ppm.c, tga.c, bmp_write --------------- *)
(* The encoders write one file.  `run` is the file: whether it exists and *)
(* the bytes it holds (the text of a PPM file as its character codes).    *)
(* fopen, fwrite and fclose succeed or fail as `io` says.                 *)

NoFile == [exists |-> FALSE, bytes |-> <<>>]

\* fopen(file_name, "wb") that succeeded: the file exists and is empty
fopen_wb == [exists |-> TRUE, bytes |-> <<>>]

\* what "%d" prints for n >= 0: the codes of its decimal digits
RECURSIVE Decimal(_)
Decimal(n) == IF n < 10 THEN <<48 + n>> ELSE Decimal(n \div 10) \o <<48 + (n % 10)>>

\* "P3 %d %d 255\n"
ppm_header(width, height) ==
    <<80, 51, 32>> \o Decimal(width) \o <<32>> \o Decimal(height)
        \o <<32, 50, 53, 53, 10>>

\* "%d %d %d\n" for the pixel p points at
ppm_line(pixels, p) ==
    Decimal(pixels[p + 1]) \o <<32>> \o Decimal(pixels[p + 2]) \o <<32>>
        \o Decimal(pixels[p + 3]) \o <<10>>

\* the two loops of ppm_write_ascii_to_stream from pixel n on: p moves on
\* by four bytes a pixel, whatever y is
RECURSIVE ppm_lines(_, _, _)
ppm_lines(pixels, n, count) ==
    IF n >= count THEN <<>>
    ELSE ppm_line(pixels, 4 * n) \o ppm_lines(pixels, n + 1, count)

ppm_write_ascii_to_stream(width, height, pixels) ==
    ppm_header(width, height) \o ppm_lines(pixels, 0, width * height)

\* true_color_tga_header with header[12 .. 15] filled in
tga_header(width, height) ==
    <<0, 0, 2, 0, 0, 0, 0, 0, 0, 0, 0, 0,
      width % 256, (width \div 256) % 256, height % 256, (height \div 256) % 256,
      24, 32>>

\* the loop of tga_write: bgr = { p[2], p[1], p[0] } for each pixel
tga_pixels(width, height, pixels) ==
    [k \in 1 .. 3 * width * height |->
        pixels[4 * ((k - 1) \div 3) + (2 - ((k - 1) % 3)) + 1]]

\* bmp_header with bmp_header[18 .. 25] filled in
bmp_header(width, height) ==
    <<66, 77, 70, 0, 0, 0, 0, 0, 0, 0, 54, 0, 0, 0, 40, 0, 0, 0,
      width % 256, (width \div 256) % 256, (width \div 65536) % 256, 0,
      height % 256, (height \div 256) % 256, (height \div 65536) % 256, 0,
      1, 0, 24, 0, 0, 0, 0, 0, 0, 0, 0, 0,
      19, 11, 0, 0, 19, 11, 0, 0, 0, 0, 0, 0, 0, 0, 0, 0>>

\* the loops of bmp_write: y from height - 1 down to 0, p = pixels +
\* y * width * 4, and p + 2, p + 1, p written for each pixel of the line
bmp_pixels(width, height, pixels) ==
    [k \in 1 .. 3 * width * height |->
        LET y == (height - 1) - ((k - 1) \div (3 * width))
            x == ((k - 1) % (3 * width)) \div 3
        IN  pixels[(y * width + x) * 4 + (2 - ((k - 1) % 3)) + 1]]

\* how the calls of stdio end: all succeed, or fopen, the fwrite of the
\* header, the first fwrite of a pixel or fclose fails
IoOutcomes == {"ok", "fopen", "header", "pixel", "fclose"}

\* a call that returned r and left the file as it is given
Returned(r, file) == [ret |-> r, file |-> file, ub |-> "none"]

\* an encoder reads through pixels = NULL: the program stops with the file
\* created and the header in it or still in the buffer of the stream
null_read(header) ==
    {[ret |-> Unset, file |-> [exists |-> TRUE, bytes |-> b], ub |-> "null_deref"] :
        b \in {<<>>, header}}

\* tga_write: the ways the call can end
tga_write(width, height, im, io, file) ==
    IF ~im.alloc THEN {Returned(1, file)}
    ELSE IF io = "fopen" THEN {Returned(0 - 1, file)}
    ELSE IF io = "header" THEN {Returned(0 - 1, fopen_wb)}
    ELSE IF io = "pixel" /\ width * height > 0
         THEN {Returned(0 - 1, [fopen_wb EXCEPT !.bytes = tga_header(width, height)])}
    ELSE {Returned(IF io = "fclose" THEN 0 - 1 ELSE 0,
                   [fopen_wb EXCEPT !.bytes = tga_header(width, height)
                                       \o tga_pixels(width, height, im.pixels)])}

\* bmp_write of renderer.c
bmp_write(width, height, im, io, file) ==
    IF io = "fopen" THEN {Returned(1, file)}
    ELSE IF io = "header" THEN {Returned(1, fopen_wb)}
    ELSE IF ~im.alloc /\ width * height > 0
         THEN null_read(bmp_header(width, height))
    ELSE IF io = "pixel" /\ width * height > 0
         THEN {Returned(1, [fopen_wb EXCEPT !.bytes = bmp_header(width, height)])}
    ELSE {Returned(IF io = "fclose" THEN 1 ELSE 0,
                   [fopen_wb EXCEPT !.bytes = bmp_header(width, height)
                                       \o bmp_pixels(width, height, im.pixels)])}

\* bmp_write of svitava.c: what fwrite and fclose return is not looked at
svitava_bmp_write(width, height, im, io, file) ==
    IF io = "fopen" THEN {Returned(1, file)}
    ELSE IF ~im.alloc /\ width * height > 0
         THEN null_read(IF io = "header" THEN <<>> ELSE bmp_header(width, height))
    ELSE LET head == IF io = "header" THEN <<>> ELSE bmp_header(width, height)
             body == bmp_pixels(width, height, im.pixels)
         IN  {Returned(0, [fopen_wb EXCEPT !.bytes =
                              head \o (IF io = "pixel" /\ body # <<>>
                                       THEN Tail(body) ELSE body)])}

\* image_export_ppm_ascii: what fprintf returns is not looked at
image_export_ppm_ascii(width, height, im, io, file) ==
    IF io = "fopen" THEN {Returned(0 - 1, file)}
    ELSE IF ~im.alloc /\ width * height > 0
         THEN null_read(IF io = "header" THEN <<>> ELSE ppm_header(width, height))
    ELSE LET head == IF io = "header" THEN <<>> ELSE ppm_header(width, height)
             from == IF io = "pixel" THEN 1 ELSE 0
         IN  {Returned(IF io = "fclose" THEN 0 - 1 ELSE 0,
                       [fopen_wb EXCEPT !.bytes =
                           head \o ppm_lines(im.pixels, from, width * height)])}

\* width and height of the buffers that are encoded
EncodeArgs == {<<2, 2>>, <<1, 2>>, <<2, 1>>, <<3, 2>>, <<4, 2>>, <<2, 0>>}

\* the known bytes of a buffer: byte i (from 1) is (i * v) % 256
Known(width, height, v) ==
    [alloc |-> TRUE,
     pixels |-> [i \in 1 .. width * height * 4 |-> (i * v) % 256],
     past |-> <<>>]

\* multipliers of the known bytes
EncodePatterns == {1, 37, 151}

InitEncode ==
    /\ \E a \in EncodeArgs :
          \E block \in {malloc(0, "fail", 0)}
                         \cup {Known(a[1], a[2], v) : v \in EncodePatterns} :
             /\ img = [t \in {"image", "cloned"} |->
                         IF t = "image" THEN Struct(a[1], a[2], RGBA, block)
                         ELSE NoImage]
             /\ last = [Call("create", "image", NoImage) EXCEPT
                           !.args = <<a[1], a[2], RGBA>>]
    /\ prev = Brief(Call("none", "NULL", NoImage))
    /\ nops = 0
    /\ ub = "none"
    /\ run = NoFile
    /\ blk = [t \in {"image", "cloned"} |->
                IF t = "image" /\ img[t].alloc THEN 1 ELSE 0]

\* the call of encoder e ends as `end` says
Encoded(e, io, end) ==
    /\ run' = end.file
    /\ ub' = end.ub
    /\ last' = [Call(e, "image", img["image"]) EXCEPT
                   !.args = last.args, !.malloc = io, !.ret = end.ret,
                   !.result = IF end.ub = "none" THEN "returned" ELSE "stopped"]
    /\ prev' = Brief(last)
    /\ nops' = nops + 1
    /\ UNCHANGED <<img, blk>>

\* the encoders are called on a file that does not exist yet, with the
\* width and height of the buffer
TgaWrite ==
    /\ last.op = "create"
    /\ \E io \in IoOutcomes :
          \E end \in tga_write(img["image"].width, img["image"].height,
                               img["image"], io, run) :
             Encoded("tga_write", io, end)

BmpWrite ==
    /\ last.op = "create"
    /\ \E io \in IoOutcomes :
          \E end \in bmp_write(img["image"].width, img["image"].height,
                               img["image"], io, run) :
             Encoded("bmp_write", io, end)

SvitavaBmpWrite ==
    /\ last.op = "create"
    /\ \E io \in IoOutcomes :
          \E end \in svitava_bmp_write(img["image"].width, img["image"].height,
                                       img["image"], io, run) :
             Encoded("svitava_bmp_write", io, end)

PpmExport ==
    /\ last.op = "create"
    /\ \E io \in IoOutcomes :
          \E end \in image_export_ppm_ascii(img["image"].width, img["image"].height,
                                            img["image"], io, run) :
             Encoded("image_export_ppm_ascii", io, end)

NextEncode == TgaWrite \/ BmpWrite \/ SvitavaBmpWrite \/ PpmExport

SpecEncode == InitEncode /\ [][NextEncode]_vars

(* ====================================================================== *)
(* Properties                                                             *)
(* ====================================================================== *)

Slots == {"image", "cloned"}

PixelOps == {"putpixel", "putpixel_max", "getpixel"}

\* n = w * h * d, decided by division so that no product is formed
IsProduct(n, w, h, d) ==
    IF w = 0 \/ h = 0 THEN n = 0
    ELSE n % w = 0 /\ (n \div w) % h = 0 /\ (n \div w) \div h = d

\* width = height = depth = 0 and no storage
Canonical(im) == im.width = 0 /\ im.height = 0 /\ im.bpp = 0 /\ ~im.alloc

SameDims(im, jm) ==
    im.width = jm.width /\ im.height = jm.height /\ im.bpp = jm.bpp

\* the struct the last call worked on, as it is now
Now == Deref(last.target)

\* the last call was given a buffer with storage and coordinates inside it
LastUsable ==
    last.target # "NULL" /\ last.before.alloc
        /\ ~OutOfRange(last.before, last.x, last.y)

\* the last call was given a buffer with storage and coordinates outside it
LastOutside ==
    last.target # "NULL" /\ last.before.alloc
        /\ OutOfRange(last.before, last.x, last.y)

\* floor((77 r + 150 g + 29 b) / 256)
Luma(c) == (77 * c[1] + 150 * c[2] + 29 * c[3]) \div 256

\* byte k (1 = first) of pixel (x, y) of a struct whose block holds it
Channel(im, x, y, k) == im.pixels[(x + y * im.width) * im.bpp + k]

\* the block holds every byte its dimensions call for
WellFormed(im) ==
    /\ im.alloc
    /\ im.width \in 1 .. MAX_WIDTH /\ im.height \in 1 .. MAX_HEIGHT
    /\ Len(im.pixels) = im.width * im.height * im.bpp

(* C1: every buffer that has storage has storage length width * height *  *)
(* depth and a depth of 1, 3 or 4, and no call other than create and      *)
(* clone changes width, height or depth.                                  *)
C1_BufferInvariant ==
    /\ \A t \in Slots :
           img[t].alloc =>
               /\ img[t].bpp \in {GRAYSCALE, RGB, RGBA}
               /\ IsProduct(Len(img[t].pixels), img[t].width, img[t].height,
                            img[t].bpp)
    /\ (last.op \notin {"create", "clone"} /\ last.target # "NULL")
           => SameDims(Now, last.before)

\* image_create was handed arguments the contract rejects
Rejected(a) ==
    a[1] = 0 \/ a[2] = 0 \/ a[1] > MAX_WIDTH \/ a[2] > MAX_HEIGHT
        \/ a[3] \notin {1, 3, 4}

(* C2: create returns the canonical invalid buffer for a zero or          *)
(* oversized dimension or a depth other than 1, 3, 4, and for every other *)
(* input a buffer with the requested dimensions and non-null storage      *)
(* (allocation failure apart, which C3 covers).                           *)
C2_CreateValidates ==
    last.op = "create" =>
        IF Rejected(last.args)
        THEN Canonical(img["image"])
        ELSE /\ img["image"].width = last.args[1]
             /\ img["image"].height = last.args[2]
             /\ img["image"].bpp = last.args[3]
             /\ (last.malloc = "ok" => img["image"].alloc)

(* C3: when the allocation inside create (or inside clone's create) fails *)
(* the returned buffer is the canonical invalid buffer, and every later   *)
(* clear, get_pixel, put_pixel or put_pixel_max on a buffer without       *)
(* storage reports NullStorage or NullBuffer and changes nothing.         *)
C3_AllocFailureIsCanonical ==
    /\ (last.op = "create" /\ last.malloc = "fail" /\ ~Rejected(last.args))
           => Canonical(img["image"])
    /\ (last.op = "clone" /\ last.malloc = "fail") => Canonical(img["cloned"])
    /\ (last.op \in PixelOps \cup {"clear"} /\ last.target # "NULL"
            /\ ~last.before.alloc)
           => /\ last.result \in {"NULL_PIXELS_POINTER", "NULL_IMAGE_POINTER"}
              /\ Now = last.before

\* the result code the contract assigns to the last call
ExpectedCode ==
    IF last.target = "NULL" THEN "NULL_IMAGE_POINTER"
    ELSE IF ~last.before.alloc THEN "NULL_PIXELS_POINTER"
    ELSE IF last.op # "clear" /\ OutOfRange(last.before, last.x, last.y)
         THEN "INVALID_COORDINATES"
    ELSE IF last.op = "getpixel" /\ last.nullSlot # 0
         THEN "NULL_COLOR_COMPONENT_POINTER"
    ELSE "OK"

(* C4: clear, put_pixel, put_pixel_max and get_pixel return a result code *)
(* as a value: NullBuffer, NullStorage, OutOfBounds, NullComponentPointer *)
(* for the respective fault, and Ok exactly when there is none.           *)
C4_ResultCodes ==
    last.op \in PixelOps \cup {"clear"} => last.result = ExpectedCode

\* the last call was an image_hline on a buffer with storage whose row or
\* one of whose ends lies outside the image
HLineOutside ==
    /\ last.op = "hline" /\ last.target # "NULL" /\ last.before.alloc
    /\ \/ OutOfRange(last.before, last.x, last.y)
       \/ OutOfRange(last.before, last.x2, last.y)

(* C5 (frame clause): get_pixel and put_pixel with a coordinate out of    *)
(* range, and hline with its row or either end out of range, leave every  *)
(* byte of the buffer unchanged: hline draws no partial span.  Stated for *)
(* RGBA buffers, the layout the four-byte stores of svitava_.c fit.       *)
C5_OutOfBoundsIsNoOp ==
    (WellFormed(last.before) /\ last.before.bpp = RGBA) =>
        /\ (last.op \in PixelOps /\ LastOutside) => Now = last.before
        /\ HLineOutside => Now = last.before

(* C6: on a depth-3 or depth-4 buffer, put_pixel(x,y,r,g,b,a) followed by *)
(* get_pixel(x,y) returns (r,g,b,255) on depth 3 and (r,g,b,a) on depth   *)
(* 4, whatever the buffer held before.                                    *)
PutThenGet ==
    /\ prev.op = "putpixel" /\ last.op = "getpixel"
    /\ prev.target = "image" /\ last.target = "image"
    /\ last.x = prev.x /\ last.y = prev.y /\ last.nullSlot = 0
    /\ LastUsable

C6_PutGetRoundTrip ==
    (PutThenGet /\ last.before.bpp \in {3, 4}) =>
        last.out = << prev.c[1], prev.c[2], prev.c[3],
                      IF last.before.bpp = 4 THEN prev.c[4] ELSE 255 >>

C6_Witness ==
    /\ PutThenGet /\ last.before.bpp = 3
    /\ prev.c = <<200, 5, 30, 0>>
    /\ last.out = <<200, 5, 30, 255>>

(* C7: on a depth-1 buffer put_pixel stores the single byte               *)
(* L = floor((77 r + 150 g + 29 b) / 256), and a following get_pixel      *)
(* returns (L, L, L, 255) whatever the neighbouring pixels hold.          *)
C7_GrayscaleLuma ==
    /\ (last.op = "putpixel" /\ LastUsable /\ WellFormed(last.before)
            /\ last.before.bpp = 1)
           => Channel(Now, last.x, last.y, 1) = Luma(last.c)
    /\ (PutThenGet /\ WellFormed(last.before) /\ last.before.bpp = 1)
           => last.out = <<Luma(prev.c), Luma(prev.c), Luma(prev.c), 255>>

\* offsets (from 0) of the bytes of pixel (x, y)
PixelSpan(im, x, y) ==
    LET p == (x + y * im.width) * im.bpp IN p .. (p + im.bpp - 1)

(* C8: put_pixel and put_pixel_max at an in-range (x,y) change only the   *)
(* bytes of that pixel; every other byte of the storage is unchanged and  *)
(* no byte at an offset >= width * height * depth is read or written.     *)
C8_WritesOnePixel ==
    (last.op \in {"putpixel", "putpixel_max"} /\ LastUsable
        /\ WellFormed(last.before) /\ last.before.bpp \in {1, 3, 4})
      => /\ \A i \in 1 .. Len(Now.pixels) :
                (i - 1) \notin PixelSpan(last.before, last.x, last.y)
                    => Now.pixels[i] = last.before.pixels[i]
         /\ Now.past = last.before.past
         /\ ub = "none"

\* the largest of a non-empty finite set of numbers
SetMax(S) == CHOOSE m \in S : \A n \in S : n <= m

(* C9: on a depth-3 or depth-4 buffer, after a run of put_pixel_max calls *)
(* at one in-range (x,y) each of r, g, b holds the maximum of its value   *)
(* before the run and the values written for it, in whatever order they   *)
(* were written, and on depth 4 the alpha is that of the last call.       *)
C9_MaxAccumulates ==
    (run.active /\ img["image"].bpp \in {3, 4}) =>
        /\ \A k \in 1 .. 3 :
               Channel(img["image"], run.x, run.y, k)
                   = SetMax({run.base[k]} \cup { c[k] : c \in run.vals })
        /\ img["image"].bpp = 4
               => Channel(img["image"], run.x, run.y, 4) = last.c[4]

\* two calls with incomparable colours on a pixel holding 9, 9, 9, 9
C9_Witness ==
    /\ run.active /\ img["image"].bpp = 4
    /\ run.vals = Colours /\ run.base = <<9, 9, 9, 9>>
    /\ last.c = <<200, 5, 30, 0>>
    /\ PixelBytes(img["image"], run.x, run.y) = <<200, 20, 30, 0>>

(* C10: on a depth-1 buffer whose pixel (x,y) holds 0, put_pixel_max      *)
(* returns Ok and leaves the pixel's byte equal to                        *)
(* floor((77 r + 150 g + 29 b) / 256), independent of a.                  *)
C10_MaxGrayscaleLuma ==
    (last.op = "putpixel_max" /\ LastUsable /\ WellFormed(last.before)
        /\ last.before.bpp = 1
        /\ Channel(last.before, last.x, last.y, 1) = 0)
      => /\ last.result = "OK"
         /\ Channel(Now, last.x, last.y, 1) = Luma(last.c)

\* the struct the last call did not work on, as it is now
Other ==
    IF last.target = "image" THEN img["cloned"]
    ELSE IF last.target = "cloned" THEN img["image"] ELSE last.other

CloneRejected ==
    \/ last.target = "NULL"
    \/ ~last.before.alloc
    \/ Canonical(last.before)
    \/ last.before.width > MAX_WIDTH
    \/ last.before.height > MAX_HEIGHT

(* C12: clone returns the canonical invalid buffer when it is given a     *)
(* null reference, a buffer without storage, the invalid buffer, or a     *)
(* buffer whose width or height exceeds the maximum although its storage  *)
(* is non-null (a failing allocation inside clone apart, which C3        *)
(* covers).                                                               *)
C12_CloneValidates ==
    (last.op = "clone" /\ CloneRejected /\ last.malloc = "ok")
        => Canonical(img["cloned"])

(* C13: size returns width * height * depth, without wrap-around, for     *)
(* every valid buffer, and 0 both for a null buffer reference and for the *)
(* canonical invalid buffer.                                              *)
C13_SizeIsProduct ==
    last.op = "size" =>
        /\ last.target = "NULL" => (last.ret = 0 /\ ub # "null_deref")
        /\ (last.target # "NULL" /\ Canonical(last.before)) => last.ret = 0
        /\ (last.target # "NULL" /\ WellFormed(last.before))
               => IsProduct(last.ret, last.before.width, last.before.height,
                            last.before.bpp)

\* the bytes put_pixel stores for colour c on a buffer of the given depth
StoredBytes(c, bpp) ==
    IF bpp = 1 THEN <<Luma(c)>>
    ELSE IF bpp = 3 THEN <<c[1], c[2], c[3]>> ELSE c

\* the buffer holds colour c at the pixels of S and what `before` held at
\* every other pixel
DrawnExactly(S, c, before, after) ==
    /\ SameDims(after, before)
    /\ \A x \in 0 .. (before.width - 1), y \in 0 .. (before.height - 1) :
           PixelBytes(after, x, y)
               = IF <<x, y>> \in S THEN StoredBytes(c, before.bpp)
                 ELSE PixelBytes(before, x, y)

\* the last call was an hline or a vline on a buffer that holds all its
\* bytes, with its row or column and both ends of its span inside
LineInside ==
    /\ last.op \in {"hline", "vline"} /\ last.target # "NULL"
    /\ WellFormed(last.before) /\ last.before.bpp \in {1, 3, 4}
    /\ IF last.op = "hline"
       THEN ~OutOfRange(last.before, last.x, last.y)
                /\ ~OutOfRange(last.before, last.x2, last.y)
       ELSE ~OutOfRange(last.before, last.x, last.y)
                /\ ~OutOfRange(last.before, last.x, last.x2)

(* C14: for arguments in range, hline(x1, x2, y, colour) sets exactly the *)
(* pixels (x, y) with min(x1,x2) <= x <= max(x1,x2) to the colour as      *)
(* put_pixel stores it and changes no other pixel, and swapping x1 and x2 *)
(* gives the same buffer; vline does the same along a column.             *)
C14_LineSpan ==
    LineInside =>
        IF last.op = "hline"
        THEN /\ DrawnExactly((Min2(last.x, last.x2) .. Max2(last.x, last.x2))
                                 \X {last.y},
                             last.c, last.before, Now)
             /\ Now = image_hline(last.before, last.x2, last.x, last.y, last.c)
        ELSE /\ DrawnExactly({last.x}
                                 \X (Min2(last.y, last.x2) .. Max2(last.y, last.x2)),
                             last.c, last.before, Now)
             /\ Now = image_vline(last.before, last.x, last.x2, last.y, last.c)

\* the elements of a sequence
Range(seq) == { seq[i] : i \in 1 .. Len(seq) }

RECURSIVE GCD(_, _)
GCD(a, b) == IF b = 0 THEN a ELSE GCD(b, a % b)

\* the points image_line hands to image_putpixel when the end points of
\* the last call are swapped
Backwards == line_points(last.x2, last.y2, last.x, last.y)

\* the longer and the shorter of the spans |x2 - x1| and |y2 - y1|
MajorSpan == Max2(Abs(last.x2 - last.x), Abs(last.y2 - last.y))

MinorSpan == Min2(Abs(last.x2 - last.x), Abs(last.y2 - last.y))

\* the line passes midway between two pixels at some step
HasTie == MajorSpan > 0 /\ (MajorSpan \div GCD(MajorSpan, MinorSpan)) % 2 = 0

(* C15 as claimed: for all end points the set of pixels written by        *)
(* line(x1, y1, x2, y2) equals the set written by line(x2, y2, x1, y1).   *)
C15_LineSymmetric ==
    (last.op = "line" /\ last.result = "void") => Range(last.pts) = Range(Backwards)

(* C15 as the code has it: line(x1, y1, x2, y2) and line(x2, y2, x1, y1)  *)
(* write both end points and equally many pixels, and they write the same *)
(* set of pixels exactly when the line never passes midway between two    *)
(* pixels, that is when max(|dx|,|dy|) / gcd(|dx|,|dy|) is odd or the two *)
(* end points coincide.  The calls are those that return: the end points  *)
(* are not so far apart that x2 - x1 or y2 - y1 overflows.                *)
C15_LineSymmetricUnlessTie ==
    (last.op = "line" /\ last.result = "void") =>
        /\ {<<last.x, last.y>>, <<last.x2, last.y2>>} \subseteq Range(last.pts)
        /\ {<<last.x, last.y>>, <<last.x2, last.y2>>} \subseteq Range(Backwards)
        /\ Len(last.pts) = Len(Backwards)
        /\ (Range(last.pts) = Range(Backwards)) <=> ~HasTie

\* the line from (0,0) to (2,1) has drawn (1,0), the line back draws (1,1)
C15_Witness ==
    /\ last.op = "line" /\ last.target = "image" /\ last.before.alloc
    /\ <<last.x, last.y, last.x2, last.y2>> = <<0, 0, 2, 1>>
    /\ last.pts = << <<0, 0>>, <<1, 0>>, <<2, 1>> >>
    /\ Backwards = << <<2, 1>>, <<1, 1>>, <<0, 0>> >>
    /\ PixelBytes(Now, 1, 0) = last.c
    /\ PixelBytes(Now, 1, 1) = PixelBytes(last.before, 1, 1)

\* the last call was an anti-aliased line that is not axis-aligned, on a
\* buffer with storage
LastAA(op) ==
    /\ last.op = op /\ last.writes # <<>>
    /\ last.target # "NULL" /\ last.before.alloc

\* the steps of the last anti-aliased line: step j made the writes 2j - 1
\* (the neighbouring pixel) and 2j (the pixel on the line)
Steps == 1 .. (Len(last.writes) \div 2)

\* what step j wrote for channel k on the neighbouring pixel, on the pixel
\* of the line
Near(j, k) == last.writes[2 * j - 1][2 + k]

Main(j, k) == last.writes[2 * j][2 + k]

(* C16 as claimed: for an aa_line that is not axis-aligned and a colour    *)
(* with a channel equal to 255, that channel is written as 255 on both     *)
(* pixels at every step, and the other channels get intensities derived   *)
(* from the complementary coverages c1 and 255 - c1 (the coverages         *)
(* themselves, or the channel scaled by them).                             *)
C16_OpaqueChannel ==
    (LastAA("line_aa") \/ LastAA("gfx_aa_line")) =>
        \A j \in Steps, k \in 1 .. 3 :
            IF last.c[k] = 255
            THEN Near(j, k) = 255 /\ Main(j, k) = 255
            ELSE \E c1 \in 0 .. 255 :
                    \/ Near(j, k) = c1 /\ Main(j, k) = 255 - c1
                    \/ /\ Near(j, k) = (last.c[k] * c1) \div 255
                       /\ Main(j, k) = (last.c[k] * (255 - c1)) \div 255

(* C16 as the code has it: gfx_aa_line writes a channel equal to 255 as   *)
(* 255 on both pixels at every step and gives every other channel the     *)
(* coverages c1 and 255 - c1 (the same c1 for all of them, 255 at the     *)
(* first step); image_line_aa scales every channel v, one equal to 255    *)
(* included, to floor(v * c1 / 255) and floor(v * (255 - c1) / 255), so   *)
(* that a 255 channel gets c1 and 255 - c1, which is 0 on the neighbour   *)
(* and 255 on the line's pixel at the first step.                         *)
C16_OpaqueOnSurfaceOnly ==
    /\ LastAA("gfx_aa_line") =>
           /\ \A j \in Steps, k \in 1 .. 3 :
                  IF last.c[k] = 255
                  THEN Near(j, k) = 255 /\ Main(j, k) = 255
                  ELSE Near(j, k) + Main(j, k) = 255
           /\ \A j \in Steps, k, l \in 1 .. 3 :
                  (last.c[k] # 255 /\ last.c[l] # 255) => Near(j, k) = Near(j, l)
           /\ \A k \in 1 .. 3 : Near(1, k) = 255
    /\ LastAA("line_aa") =>
           /\ \A j \in Steps, k \in 1 .. 3 :
                  /\ Near(j, k) + Main(j, k) \in {last.c[k] - 1, last.c[k]}
                  /\ last.c[k] = 255 => Near(j, k) + Main(j, k) = 255
                  /\ \E c1 \in 0 .. 255 :
                         /\ Near(j, k) = (last.c[k] * c1) \div 255
                         /\ Main(j, k) = (last.c[k] * (255 - c1)) \div 255
           /\ \A k \in 1 .. 3 : Near(1, k) = 0 /\ Main(1, k) = last.c[k]

\* image_line_aa from (0,0) to (2,1) in (255,100,0,40) on a cleared image:
\* the second step writes the red channel as 128 and 127
C16_Witness ==
    /\ LastAA("line_aa") /\ last.target = "image" /\ last.before.alloc
    /\ <<last.x, last.y, last.x2, last.y2>> = <<0, 0, 2, 1>>
    /\ last.c = <<255, 100, 0, 40>>
    /\ last.writes[3] = <<1, 1, 128, 50, 0>>
    /\ last.writes[4] = <<1, 0, 127, 49, 0>>
    /\ PixelBytes(Now, 1, 1) = <<128, 50, 0, 40>>
    /\ PixelBytes(Now, 1, 0) = <<127, 49, 0, 40>>

\* the last call was an apply on a buffer with storage
LastApply == last.op = "apply" /\ last.target # "NULL" /\ last.before.alloc

(* C17: apply(buffer, kernel, N, divisor) with N <= 0, N even or          *)
(* divisor = 0 is a no-op: every byte of the buffer, and of the other     *)
(* buffer of the program, is as it was.                                   *)
C17_ApplyRejects ==
    (LastApply /\ (last.args[1] <= 0 \/ last.args[1] % 2 = 0 \/ last.args[2] = 0))
        => (Now = last.before /\ Other = last.other)

\* an apply with the 2x2 kernel of ones has left alone a 3x3 RGBA buffer
\* that the 3x3 kernel of ones with divisor 9 changes
C17_Witness ==
    /\ LastApply /\ last.args = <<2, 4, 0>> /\ last.malloc = "ok"
    /\ last.before.bpp = 4 /\ last.before.width = 3 /\ last.before.height = 3
    /\ Now = last.before
    /\ apply_kernel(FALSE, last.before, 3, Ones(3), 9, "ok", 0) # last.before

\* the last call was an apply with an odd positive size and a non-zero
\* divisor on a buffer that holds all its bytes
ValidApply ==
    /\ LastApply /\ ~rejected(last.args[1], last.args[2])
    /\ WellFormed(last.before) /\ last.before.bpp \in {1, 3, 4}

(* C18: for every valid kernel and non-zero divisor, apply leaves every   *)
(* pixel within floor(N/2) of an edge byte-for-byte equal to the input;   *)
(* on a buffer with width < N or height < N the whole buffer is unchanged *)
(* and the call terminates.                                               *)
C18_BorderUntouched ==
    ValidApply =>
        /\ \A x \in 0 .. (last.before.width - 1),
              y \in 0 .. (last.before.height - 1) :
               <<x, y>> \notin Interior(last.before, last.args[1] \div 2)
                   => PixelBytes(Now, x, y) = PixelBytes(last.before, x, y)
        /\ (last.before.width < last.args[1] \/ last.before.height < last.args[1])
               => (Now = last.before /\ ub # "int_overflow")

\* every pixel of the buffer holds the same bytes
Uniform(im) ==
    \A x \in 0 .. (im.width - 1), y \in 0 .. (im.height - 1) :
        PixelBytes(im, x, y) = PixelBytes(im, 0, 0)

\* the last call was filter_smooth_3x3_block's apply on a buffer of one
\* colour, and its allocation succeeded
BoxBlurOfUniform ==
    /\ ValidApply /\ last.malloc = "ok"
    /\ <<last.args[1], last.kernel, last.args[2]>> = smooth_3x3_block
    /\ Uniform(last.before)

(* C19 as claimed: apply with the 3x3 kernel of ones and divisor 9 on a   *)
(* buffer of one colour leaves every interior pixel unchanged, for every  *)
(* depth and every colour, a non-zero alpha on depth 4 included.          *)
C19_BoxBlurFixesUniform ==
    BoxBlurOfUniform =>
        \A p \in Interior(last.before, 1) :
            PixelBytes(Now, p[1], p[2]) = PixelBytes(last.before, p[1], p[2])

(* C19 as the code has it: the call leaves the colour bytes of every      *)
(* interior pixel unchanged (the one byte on depth 1, r, g, b on depth 3  *)
(* and 4) and sets the alpha of every interior pixel of a depth-4 buffer  *)
(* to 0, so that such a pixel is unchanged only when its alpha was 0.     *)
C19_BoxBlurKeepsColour ==
    BoxBlurOfUniform =>
        \A p \in Interior(last.before, 1) :
            /\ \A k \in 1 .. Min2(last.before.bpp, 3) :
                   PixelBytes(Now, p[1], p[2])[k]
                       = PixelBytes(last.before, p[1], p[2])[k]
            /\ last.before.bpp = 4 => PixelBytes(Now, p[1], p[2])[4] = 0

\* the 3x3 RGBA buffer of colour (10, 20, 30, 40) after the box blur
C19_Witness ==
    /\ BoxBlurOfUniform /\ last.before.bpp = 4
    /\ PixelBytes(last.before, 1, 1) = <<10, 20, 30, 40>>
    /\ PixelBytes(Now, 1, 1) = <<10, 20, 30, 0>>
    /\ PixelBytes(Now, 0, 0) = <<10, 20, 30, 40>>

\* C20: the rows of a convolution, or of a render, handed to one worker
\* each, the workers of the convolution loading from the source and
\* storing to the clone: whatever the order of their steps, the buffer at
\* the end is the one apply_kernel, or render_julia, computes from top to
\* bottom, and no worker loads a byte that another worker has stored.
C20_RowsInAnyOrder ==
    /\ last.op = "rows_done" =>
          img["image"] = apply_kernel(FALSE, last.before, last.args[1],
                                      last.kernel, last.args[2], "ok", 0)
    /\ last.op = "render_done" =>
          img["image"] = render_julia(FALSE, last.before, last.args[1],
                                      last.args[2], last.args[3])
    /\ last.op \in {"rows", "render"} =>
          \A r \in last.reads :
              ~\E w \in last.writes :
                  w[1] # r[1] /\ w[2] = r[2] /\ w[3] = r[3]

\* a grayscale image was filtered with a lower row computed while a higher
\* one had pixels left, the stores of a row reached into the next row, and
\* the filter changed the image
C20_Witness ==
    /\ last.op = "rows_done"
    /\ last.y2 > 0
    /\ img["image"] # last.before
    /\ \E w \in last.writes :
          w[3] \div (last.before.width * last.before.bpp) # w[1]

\* C21: a loop that starts from z = 0 and adds the pixel's point, run for
\* the pixel whose point is (0, 0), never passes the bailout test and
\* ends with its count equal to the bound of the loop.
C21_OriginNeverEscapes ==
    (SeedZero(run.rule) /\ run.pixel = Point(0, 0)) =>
        /\ ~run.out
        /\ run.done => last.ret = run.bound

\* the loop of draw_multifractal_mandel_julia has ended for the origin,
\* past the count at which it changes its constant
C21_Witness ==
    /\ run.rule = "draw_multifractal_mandel_julia"
    /\ run.pixel = Point(0, 0)
    /\ run.done /\ last.ret = 255

\* C28: the count of every escape-time loop stays between 0 and the bound
\* of its while, whatever the pixel, also for an odd bound and an orbit
\* that stays inside the bailout radius.
C28_CountWithinBound == 0 <= run.i /\ run.i <= run.bound

(* C22: when render_plasma has returned from a call on an image with      *)
(* storage and with a palette, every pixel of the full rectangle          *)
(* (0, 0) .. (width - 1, height - 1), the last column and the last row    *)
(* included, was written at least once.                                   *)
C22_EveryPixelWritten ==
    (/\ last.op = "render_plasma"
     /\ run.palette # "NULL"
     /\ img["image"].alloc
     /\ run.stack = <<>>) =>
        \A x \in 0 .. img["image"].width - 1, y \in 0 .. img["image"].height - 1 :
            <<x, y>> \in run.written

(* C29: in a plasma call tree started with four corner colours in         *)
(* 0 .. 255, for any delta >= 0 and any values of rand(), every corner    *)
(* colour handed to a recursive call lies in 0 .. 255 and the palette     *)
(* index (c1 + c2 + c3 + c4) / 4 of a leaf lies in 0 .. 255; the palette  *)
(* offset putpixel reads at is that of an index in 0 .. 255.              *)
C29_IndicesInPalette ==
    /\ \A n \in 1 .. Len(run.stack) :
          \A c \in {run.stack[n].c1, run.stack[n].c2,
                    run.stack[n].c3, run.stack[n].c4} : c \in 0 .. 255
    /\ last.result = "leaf" => last.ret \in 0 .. 255
    /\ last.op = "putpixel_indexed" => last.ret \in {3 * i : i \in 0 .. 255}

C29_Witness ==
    /\ run.root.c1 = 255 /\ run.root.delta = 100
    /\ img["image"].width = 9
    /\ last.result = "leaf" /\ last.ret = 255
    /\ run.stack # <<>>

\* the value of the run of digits that starts at bytes[i], acc being the
\* value of the digits before it
RECURSIVE RunValue(_, _, _)
RunValue(bytes, i, acc) ==
    IF i > Len(bytes) \/ bytes[i] \notin 48 .. 57 THEN acc
    ELSE RunValue(bytes, i + 1, acc * 10 + bytes[i] - 48)

\* the numbers of a text: the values of the runs of digits that start at
\* bytes[from] or later, in the order of the text
Numbers(bytes, from) ==
    LET starts == {i \in from .. Len(bytes) :
                      /\ bytes[i] \in 48 .. 57
                      /\ i = from \/ bytes[i - 1] \notin 48 .. 57}
        nth(k) == CHOOSE i \in starts : Cardinality({j \in starts : j <= i}) = k
    IN  [k \in 1 .. Cardinality(starts) |-> RunValue(bytes, nth(k), 0)]

\* a P3 file read by the rules of the format: the numbers after "P3" are
\* width, height, the greatest value, and then r, g, b of each pixel
PpmNumbers(file) == Numbers(file.bytes, 3)

\* the call under way is a whole encoding by e of a buffer with pixels
EncodedBy(e) ==
    /\ last.op = e /\ last.malloc = "ok" /\ last.result = "returned"
    /\ img["image"].alloc

(* C23: in the file the PPM encoder wrote, the k-th block of `width`      *)
(* lines after the header (k = 0 .. height - 1) holds, from left to       *)
(* right, r, g, b of the pixels of buffer row height - 1 - k.             *)
C23_RowsBottomToTop ==
    EncodedBy("image_export_ppm_ascii") =>
        LET im == img["image"]
            n == PpmNumbers(run)
        IN  \A k \in 0 .. im.height - 1, x \in 0 .. im.width - 1, c \in 1 .. 3 :
                n[3 + 3 * (k * im.width + x) + c]
                    = Channel(im, x, (im.height - 1) - k, c)

\* byte i (from 0) of a file, Unset where the file has ended
FileByte(file, i) == IF i < Len(file.bytes) THEN file.bytes[i + 1] ELSE Unset

\* r, g, b of pixel (x, y) as a reader of the format finds them.
\* P3: the pixels follow the header from the top row down.
PpmDecode(file, x, y) ==
    LET n == PpmNumbers(file)
        at == 3 + 3 * (y * n[1] + x)
    IN  <<n[at + 1], n[at + 2], n[at + 3]>>

\* TGA with the top-left origin flag: 18 bytes of header, then b, g, r of
\* the pixels from the top row down
TgaDecode(file, x, y) ==
    LET width == FileByte(file, 12) + 256 * FileByte(file, 13)
        at == 18 + 3 * (y * width + x)
    IN  <<FileByte(file, at + 2), FileByte(file, at + 1), FileByte(file, at)>>

\* BMP, 24 bits a pixel: 54 bytes of header, then the rows from the bottom
\* one up, b, g, r for each pixel, each row filled up to a multiple of
\* four bytes
BmpDecode(file, x, y) ==
    LET width == FileByte(file, 18) + 256 * FileByte(file, 19)
        height == FileByte(file, 22) + 256 * FileByte(file, 23)
        stride == ((3 * width + 3) \div 4) * 4
        at == 54 + ((height - 1) - y) * stride + 3 * x
    IN  <<FileByte(file, at + 2), FileByte(file, at + 1), FileByte(file, at)>>

\* every pixel of the buffer is read back from the file with its r, g, b
ReadsBack(Decode(_, _, _)) ==
    \A x \in 0 .. img["image"].width - 1, y \in 0 .. img["image"].height - 1 :
        Decode(run, x, y) = <<Channel(img["image"], x, y, 1),
                              Channel(img["image"], x, y, 2),
                              Channel(img["image"], x, y, 3)>>

(* C24: a small RGBA buffer of known bytes that was written by the PPM,   *)
(* the BMP or the TGA encoder is read back from the file, by a reader of  *)
(* that format, with the r, g, b of every pixel (x, y).                   *)
C24_RoundTrip ==
    /\ EncodedBy("image_export_ppm_ascii") => ReadsBack(PpmDecode)
    /\ EncodedBy("tga_write") => ReadsBack(TgaDecode)
    /\ EncodedBy("bmp_write") => ReadsBack(BmpDecode)

(* C25: an encoder called with pixels = NULL returns a value other than   *)
(* 0 and the file does not exist afterwards.                              *)
C25_NullPixelsFailCleanly ==
    (/\ last.op \in {"tga_write", "bmp_write", "svitava_bmp_write",
                     "image_export_ppm_ascii"}
     /\ ~img["image"].alloc) =>
        /\ last.result = "returned" /\ last.ret # 0
        /\ ~run.exists

\* the sum over taps i .. size * size - 1 of kernel[dy][dx] times channel k
\* of what get_pixel returns at (x + dx, y + dy) on the buffer im
RECURSIVE TapSum(_, _, _, _, _, _, _)
TapSum(im, x, y, size, kernel, k, i) ==
    IF i >= size * size THEN 0
    ELSE LET row == i \div size
             col == i % size
             px == image_getpixel(FALSE, im, x + col - size \div 2,
                                  y + row - size \div 2, 0, Fill(4, 0), 0)
         IN  kernel[row + 1][col + 1] * px[k]
                 + TapSum(im, x, y, size, kernel, k, i + 1)

(* C27: after apply on a buffer, every interior pixel (at least           *)
(* floor(N/2) from each edge) holds, for each of r, g, b that the depth   *)
(* stores, clamp(S / divisor, 0, 255) with S the sum over the N x N       *)
(* neighbourhood of kernel[dy][dx] times the channel get_pixel returns on *)
(* the buffer as it was before the call and / the division of ints, and   *)
(* on depth 4 its alpha is 0.                                             *)
C27_FilteredFromInput ==
    (ValidApply /\ last.malloc = "ok") =>
        \A p \in Interior(last.before, last.args[1] \div 2) :
            /\ \A k \in 1 .. Min2(last.before.bpp, 3) :
                  PixelBytes(Now, p[1], p[2])[k]
                      = Clamp(Quot(TapSum(last.before, p[1], p[2], last.args[1],
                                          last.kernel, k, 0),
                                   last.args[2]))
            /\ last.before.bpp = 4 => PixelBytes(Now, p[1], p[2])[4] = 0

\* the box blur on a buffer with two interior pixels, the left one of
\* another colour than its neighbours: both are changed
C27_Witness ==
    /\ ValidApply /\ last.malloc = "ok"
    /\ <<last.args[1], last.kernel, last.args[2]>> = smooth_3x3_block
    /\ last.before.width = 4 /\ last.before.bpp = 3
    /\ PixelBytes(last.before, 1, 1) # PixelBytes(last.before, 2, 1)
    /\ PixelBytes(Now, 1, 1) # PixelBytes(last.before, 1, 1)
    /\ PixelBytes(Now, 2, 1) # PixelBytes(last.before, 2, 1)

\* the points of a line follow one another by at most one step in x and
\* in y, and by one step along the longer span
LineSteps(pts, alongX) ==
    \A i \in 1 .. Len(pts) - 1 :
        /\ Abs(pts[i + 1][1] - pts[i][1]) <= 1
        /\ Abs(pts[i + 1][2] - pts[i][2]) <= 1
        /\ IF alongX THEN Abs(pts[i + 1][1] - pts[i][1]) = 1
           ELSE Abs(pts[i + 1][2] - pts[i][2]) = 1

\* the rule of C26 for a call whose end points lie so that the spans fit
LineWalk ==
    LET dx == Abs(last.x2 - last.x)
        dy == Abs(last.y2 - last.y)
    IN  /\ Len(last.pts) = Max2(dx, dy) + 1
        /\ last.pts[1] = <<last.x, last.y>>
        /\ last.pts[Len(last.pts)] = <<last.x2, last.y2>>
        /\ dx # dy => LineSteps(last.pts, dx > dy)
        /\ dx = dy => LineSteps(last.pts, TRUE) /\ LineSteps(last.pts, FALSE)

NeverLowered ==
    \A x \in 0 .. (last.before.width - 1), y \in 0 .. (last.before.height - 1),
       k \in 1 .. 3 :
        PixelBytes(Now, x, y)[k] >= PixelBytes(last.before, x, y)[k]

(* C30: an anti-aliased line with x1 # x2 and y1 # y2 lowers no colour    *)
(* channel: r, g, b of every pixel after the call are at least what they  *)
(* were before it.                                                        *)
C30_NeverLowersChannel ==
    (/\ last.op \in {"line_aa", "gfx_aa_line"}
     /\ last.target # "NULL" /\ last.before.alloc
     /\ last.x # last.x2 /\ last.y # last.y2) => NeverLowered

====
